---- MODULE Spec2Model ----
(***************************************************************************)
(* Poly-Mind-MCP: the Polymarket indexer (src/src/indexer/run.py), its     *)
(* SQLite store (src/src/indexer/store.py, src/src/db/schema.py) and the   *)
(* chain source it scans.                                                  *)
(*                                                                         *)
(* Three specifications:                                                   *)
(*   DecoderSpec  TradeDecoder._parse_order_filled_log applied to one raw  *)
(*              log drawn from a bounded input set, and its result stored; *)
(*   StoreSpec  DataStore.insert_trade / insert_trades called directly     *)
(*              with arbitrary batches and injected SQLite faults;         *)
(*   Spec       PolymarketIndexer.run_indexer as a process: CATCHUP and    *)
(*              LIVE loops, one step per store or chain access, with       *)
(*              chain growth, faults, operator interrupts and restarts.    *)
(***************************************************************************)
EXTENDS Integers, Sequences, FiniteSets, TLC

\* ------------------------------------------------------------------ bounds

\* Distinct identity keys a caller of the store may submit (StoreSpec).
NumKeys == 2
\* Longest batch handed to insert_trades by StoreSpec.
MaxBatchLen == 2
\* Cap on the rows of the trades table: reached only if deduplication breaks.
MaxRows == NumKeys + MaxBatchLen + 1

\* Chain: heights are multiples of HeightStep up to MaxHeight; log i of the
\* chain sits in block i * LogStride.
MaxHeight == 120
HeightStep == 40
NumLogs == 4
LogStride == 25
\* Invocations of run_indexer (process starts) in one behaviour.
MaxRuns == 2
\* Faults (chain or SQLite errors) injected into run_indexer in one behaviour.
MaxFaults == 1

\* Decoder inputs (DecoderSpec): asset ids 0..MaxAssetId, filled amounts
\* 0..MaxAmount.
MaxAssetId == 2
MaxAmount == 2

\* Price inputs (PriceSpec): amounts c * 10^e with c in 0..MaxCoef, a single
\* decimal digit.
MaxCoef == 5

\* Market inputs (MarketSpec): statements run against the markets table,
\* entries of one catalog snapshot.
MaxUpserts == 3
MaxCatalog == 2

\* Server inputs (McpSpec): lines read from stdin.
MaxLines == 3

\* -------------------------------------------------------- program constants

\* PolymarketIndexer.BATCH_SIZE
BATCH_SIZE == 50
\* run_indexer: the fallback of sync_state.get('last_block', current_block - 1000)
DEFAULT_LOOKBACK == 1000
\* _parse_order_filled_log: topics needed, hex characters of five uint256 words
MIN_TOPICS == 4
MIN_DATA_HEX == 320
\* _calculate_price: significant digits of the decimal context the
\* quotient and round(price, 6) are computed in
DECIMAL_PREC == 28

\* ------------------------------------------------------------------- state

VARIABLES
    \* the store (SQLite file)
    trades,         \* table trades: sequence of rows in rowid order
    sync_state,     \* table sync_state, row 'indexer': [last_block, total_trades]
    \* the chain source
    height,         \* web3.eth.block_number
    \* run_indexer: locals of the running invocation
    pc,             \* position: idle | loop | fetch | store | advance | raised | poll
    mode,           \* catchup | live
    continuous,     \* argument continuous
    from_given,     \* whether argument from_block was supplied
    to_given,       \* whether argument to_block was supplied
    current_block,  \* current_block = self.get_current_block() at entry
    start_block,    \* stats['start_block'] (from_block after defaulting)
    to_block,       \* to_block after defaulting
    batch_start,    \* CATCHUP batch_start / LIVE new_from
    batch_end,      \* CATCHUP batch_end / LIVE latest_block
    trade_tuples,   \* run_batch: decoded trades of the batch in flight
    total_trades_stored,   \* stats['total_trades_stored']
    last_processed_block,  \* LIVE loop variable
    status,         \* stats['status'] of the last invocation
    \* history (not read by the program)
    run_no,         \* invocations of run_indexer so far
    fetch_error,    \* the last get_logs call of the batch in flight raised
    store_error,    \* the store step of the batch in flight hit an error
    fetched,        \* ranges <<lo, hi>> requested from the chain by this run
    done_ranges,    \* ranges whose cursor write this run performed
    ok_ranges,      \* ranges this run fetched without error and stored in full
    prev_done,      \* done_ranges of the previous run
    prev_end,       \* how the previous run ended: completed | error | stopped |
                    \* mid_catchup (interrupted with batches left) | end_of_catchup
    acked,          \* keys decoded in batches whose cursor write was performed
    cursor_writer,  \* run_no of the run that last wrote sync_state (0: init_db)
    prev_run,       \* the previous run, when it was a completed one-shot run
                    \* over a caller-given range with the chain unchanged: its
                    \* range, the chain height, and the store as it left it
    faults,         \* faults injected into run_indexer so far
    last_op,        \* StoreSpec: the last direct call of the store and its outcome
    log_in,         \* DecoderSpec: the raw log handed to the decoder
    decoded,        \* DecoderSpec: what the decoder returned for log_in
    price_args,     \* PriceSpec: the arguments of the last _calculate_price call
    price_out,      \* PriceSpec: what that call returned
    markets,        \* table markets: the rows in rowid order
    market_seq,     \* sqlite_sequence of markets: the last rowid handed out
    market_op,      \* MarketSpec: the last call on the markets and its outcome
    scanners,       \* ConcSpec: the locals of each scanner process
    db_lock,        \* ConcSpec: the connection holding SQLite's write lock
    returned,       \* ConcSpec: sum of the counts insert_trades returned
    mcp_state,      \* McpSpec: the stdio server: running | eof | interrupted
    mcp_read,       \* McpSpec: lines read from stdin so far
    mcp_line,       \* McpSpec: the line read last
    mcp_out         \* McpSpec: the response lines written to stdout, in order

decoderVars == <<log_in, decoded>>
priceVars == <<price_args, price_out>>
marketVars == <<markets, market_seq, market_op>>
scanVars == <<scanners, db_lock, returned>>
mcpVars == <<mcp_state, mcp_read, mcp_line, mcp_out>>

vars == <<trades, sync_state, height, pc, mode, continuous, from_given, to_given, current_block,
          start_block, to_block, batch_start, batch_end, trade_tuples,
          total_trades_stored, last_processed_block, status, run_no,
          fetch_error, store_error, fetched, done_ranges, ok_ranges, prev_done, prev_end, prev_run,
          acked, cursor_writer, faults, last_op, decoderVars, priceVars, marketVars, scanVars, mcpVars>>

storeVars == <<trades, sync_state>>
indexerVars == <<pc, mode, continuous, from_given, to_given, current_block, start_block, to_block,
                 batch_start, batch_end, trade_tuples, total_trades_stored,
                 last_processed_block, status>>
historyVars == <<run_no, fetch_error, store_error, fetched, done_ranges, ok_ranges,
                 prev_done, prev_end, prev_run, acked, cursor_writer, faults>>

\* ------------------------------------------------------------ trades table

\* The identity key of a trade: UNIQUE(tx_hash, log_index).
Key(t) == <<t.tx_hash, t.log_index>>

StoredKeys(tbl) == {Key(tbl[i]) : i \in 1..Len(tbl)}

\* NULL in the column market_id (the key is missing from the dict, or None).
NoMarketId == 0

\* The columns insert_trade / insert_trades bind from a trade dict.  The dict
\* keys market_slug and condition_id are not columns and are dropped;
\* market_id is trade.get('market_id').
TradeRow(d) ==
    [market_id |-> IF "market_id" \in DOMAIN d THEN d.market_id
                   ELSE NoMarketId,
     tx_hash |-> d.tx_hash, log_index |-> d.log_index,
     block_number |-> d.block_number,
     maker_asset_id |-> d.maker_asset_id, taker_asset_id |-> d.taker_asset_id,
     maker_amount |-> d.maker_amount, taker_amount |-> d.taker_amount,
     fee |-> d.fee, side |-> d.side, outcome |-> d.outcome,
     price |-> d.price, token_id |-> d.token_id]

\* cursor.rowcount after INSERT OR IGNORE of one row.
RowCount_AlwaysOne(tbl, d) == 1

RowCount(tbl, d) == IF Key(d) \in StoredKeys(tbl) THEN 0 ELSE 1

\* INSERT OR IGNORE INTO trades under UNIQUE(tx_hash, log_index).
InsertOrIgnore_Replaces(tbl, d) ==
    IF Key(d) \in StoredKeys(tbl)
    THEN [i \in 1..Len(tbl) |->
             IF Key(tbl[i]) = Key(d) THEN TradeRow(d) ELSE tbl[i]]
    ELSE Append(tbl, TradeRow(d))

InsertOrIgnore_NoUnique(tbl, d) == Append(tbl, TradeRow(d))

InsertOrIgnore(tbl, d) ==
    IF Key(d) \in StoredKeys(tbl) THEN tbl ELSE Append(tbl, TradeRow(d))

\* Faults SQLite can raise inside one call: none; "connect" (sqlite3.connect
\* in _get_conn raises, outside the try); "row" (the execute of row `row`
\* raises); "commit" (conn.commit raises).
StoreFaults(n) ==
    {[kind |-> k, row |-> 0] : k \in {"none", "connect", "commit"}}
        \cup {[kind |-> "row", row |-> i] : i \in 1..n}

\* The for loop of insert_trades from row i on: tbl is the table as the open
\* transaction sees it, inserted the counter, applied the keys whose INSERT
\* took effect inside the transaction.
RECURSIVE ExecuteRows(_, _, _, _, _, _)
ExecuteRows(tbl, batch, i, fault, inserted, applied) ==
    IF i > Len(batch) THEN [table |-> tbl, inserted |-> inserted, applied |-> applied]
    ELSE IF fault.kind = "row" /\ fault.row = i
         THEN ExecuteRows(tbl, batch, i + 1, fault, inserted, applied)
         ELSE LET n == RowCount(tbl, batch[i]) IN
              ExecuteRows(InsertOrIgnore(tbl, batch[i]), batch, i + 1, fault,
                          IF n > 0 THEN inserted + 1 ELSE inserted,
                          IF n > 0 THEN applied \cup {Key(batch[i])} ELSE applied)

\* What conn.commit() failing leaves behind: the except branch rolls the
\* transaction back and returns 0.
CommitFailed(tbl, r) ==
    [table |-> tbl, ret |-> 0, raised |-> FALSE, applied |-> r.applied]

\* DataStore.insert_trades(trades): the table after the call, the value
\* returned, whether an exception escaped, and the keys applied inside the
\* transaction before it ended.
InsertTrades(tbl, batch, fault) ==
    IF batch = <<>> THEN [table |-> tbl, ret |-> 0, raised |-> FALSE, applied |-> {}]
    ELSE IF fault.kind = "connect"
    THEN [table |-> tbl, ret |-> 0, raised |-> TRUE, applied |-> {}]
    ELSE LET r == ExecuteRows(tbl, batch, 1, fault, 0, {}) IN
         IF fault.kind = "commit" THEN CommitFailed(tbl, r)
         ELSE [table |-> r.table, ret |-> r.inserted, raised |-> FALSE,
               applied |-> r.applied]

\* DataStore.insert_trade(trade): returns a boolean (ret 1 for True).
InsertTrade(tbl, d, fault) ==
    IF fault.kind = "connect"
    THEN [table |-> tbl, ret |-> 0, raised |-> TRUE, applied |-> {}]
    ELSE IF fault.kind \in {"row", "commit"}
    THEN [table |-> tbl, ret |-> 0, raised |-> FALSE,
          applied |-> IF fault.kind = "commit" /\ RowCount(tbl, d) > 0
                      THEN {Key(d)} ELSE {}]
    ELSE [table |-> InsertOrIgnore(tbl, d), ret |-> RowCount(tbl, d),
          raised |-> FALSE,
          applied |-> IF RowCount(tbl, d) > 0 THEN {Key(d)} ELSE {}]

\* ------------------------------------------------------- sync_state table

\* init_db: INSERT OR IGNORE INTO sync_state VALUES ('indexer', 0, 0, now).
InitSyncState == [last_block |-> 0, total_trades |-> 0]

\* DataStore.get_sync_state()['last_block']: the row always exists after
\* init_db, so the .get default of run_indexer is never taken.
GetSyncLastBlock(ss) == ss.last_block

\* DataStore.update_sync_state(last_block, total_trades): an unconditional
\* overwrite of both columns; a failing write is rolled back and swallowed.
UpdateSyncState(ss, last_block, total, ok) ==
    IF ok THEN [last_block |-> last_block, total_trades |-> total] ELSE ss

\* ----------------------------------------------------------- markets table

\* NULL in the columns event_id, yes_token_id, no_token_id (None in a
\* market record); "NULL" in slug and condition_id.
NoEvent == 0
NoToken == 0

\* Row i of the table holds condition_id cid; 0 when no row does.
RowOf(table, cid) ==
    IF \E i \in 1..Len(table) : table[i].condition_id = cid
    THEN CHOOSE i \in 1..Len(table) : table[i].condition_id = cid
    ELSE 0

\* The constraints the INSERT ... ON CONFLICT(condition_id) statement can
\* fail on: NOT NULL of condition_id, yes_token_id and no_token_id, and
\* UNIQUE of slug against the rows of other markets (NULL slugs never clash).
ConstraintFails(table, market) ==
    \/ market.condition_id = "NULL"
    \/ market.yes_token_id = NoToken
    \/ market.no_token_id = NoToken
    \/ /\ market.slug # "NULL"
       /\ \E j \in 1..Len(table) :
             /\ table[j].slug = market.slug
             /\ table[j].condition_id # market.condition_id

\* DataStore.upsert_market(market): the new table and sequence, whether the
\* call raised, and the id it returned.  A failing statement is rolled back
\* and re-raised.  Without a row for condition_id a row is inserted with the
\* next rowid; with one, the columns of the DO UPDATE SET list are
\* overwritten (slug and the token ids here; question_id, oracle,
\* collateral_token, enable_neg_risk, outcome_slot_count, status and title
\* are overwritten the same way; event_id is not in the list), and the
\* statement takes a rowid from the sequence all the same.  updated_at, the
\* time of the call, is left out.
UpsertMarket(table, seq, market) ==
    LET i == RowOf(table, market.condition_id)
    IN IF ConstraintFails(table, market)
       THEN [table |-> table, seq |-> seq, raised |-> TRUE, ret |-> 0]
       ELSE IF i = 0
       THEN [table |-> Append(table,
                         [id |-> seq + 1, event_id |-> market.event_id,
                          slug |-> market.slug,
                          condition_id |-> market.condition_id,
                          yes_token_id |-> market.yes_token_id,
                          no_token_id |-> market.no_token_id]),
             seq |-> seq + 1, raised |-> FALSE, ret |-> seq + 1]
       ELSE [table |-> [table EXCEPT ![i] =
                          [@ EXCEPT !.slug = market.slug,
                                    !.yes_token_id = market.yes_token_id,
                                    !.no_token_id = market.no_token_id]],
             seq |-> seq + 1, raised |-> FALSE, ret |-> table[i].id]

\* mapping[token] = value of a Python dict: a new key, or the value of an
\* existing key replaced.
DictSet(mapping, token, value) ==
    [t \in DOMAIN mapping \cup {token} |->
        IF t = token THEN value ELSE mapping[t]]

\* The for loop of get_token_to_market_mapping over the first n rows.
RECURSIVE MappingOfRows(_, _)
MappingOfRows(table, n) ==
    IF n = 0 THEN <<>>
    ELSE LET row == table[n]
             m0 == MappingOfRows(table, n - 1)
             m1 == IF row.yes_token_id # NoToken
                   THEN DictSet(m0, row.yes_token_id,
                                [slug |-> row.slug,
                                 condition_id |-> row.condition_id,
                                 outcome |-> "YES"])
                   ELSE m0
         IN IF row.no_token_id # NoToken
            THEN DictSet(m1, row.no_token_id,
                         [slug |-> row.slug,
                          condition_id |-> row.condition_id,
                          outcome |-> "NO"])
            ELSE m1

\* DataStore.get_token_to_market_mapping(): the dict built from the rows
\* with a token id, in the order the SELECT returns them.
GetTokenToMarketMapping(table) == MappingOfRows(table, Len(table))

\* market_op before any call on the markets.
NoMarketOp == [op |-> "none"]

\* ------------------------------------------------------------ market sync

\* The condition identifiers, slugs and catalog-supplied token identifiers
\* of the markets.
ConditionIds == {"A", "B"}
Slugs == {"a", "b"}
SuppliedTokens == {1, 2}

\* Position of a condition identifier among ConditionIds.
CondIndex(cid) == IF cid = "A" THEN 0 ELSE 1

\* MarketDecoder.derive_token_ids(condition_id): the (YES, NO) pair of the
\* Token ID Resolver, one identifier per (condition identifier, outcome
\* index), index 0 = YES and index 1 = NO, no two alike.
DeriveTokenIds(condition_id) ==
    <<Cardinality(SuppliedTokens) + 2 * CondIndex(condition_id) + 1,
      Cardinality(SuppliedTokens) + 2 * CondIndex(condition_id) + 2>>

\* A token identifier of no market, supplied or derived.
UnknownToken == Cardinality(SuppliedTokens) + 2 * Cardinality(ConditionIds) + 1

\* clobTokenIds of a catalog market: absent (None, or an empty value), a
\* string json.loads fails on, or a list of token identifiers.
ClobTokenIds ==
    {[form |-> "absent", ids |-> <<>>], [form |-> "malformed", ids |-> <<>>],
     [form |-> "list", ids |-> <<1>>],
     [form |-> "list", ids |-> <<1, 2>>]}

\* if clob_tokens: a non-empty string or list.
Supplies(clob_tokens) ==
    clob_tokens.form = "malformed"
    \/ (clob_tokens.form = "list" /\ clob_tokens.ids # <<>>)

\* (yes_token, no_token) read from clobTokenIds: token_ids[0] and
\* token_ids[1] where present, None for both when parsing raises.
ClobTokens_Swapped(clob_tokens) ==
    IF clob_tokens.form = "malformed" THEN <<NoToken, NoToken>>
    ELSE <<IF Len(clob_tokens.ids) > 1 THEN clob_tokens.ids[2] ELSE NoToken,
           IF Len(clob_tokens.ids) > 0 THEN clob_tokens.ids[1] ELSE NoToken>>

ClobTokens(clob_tokens) ==
    IF clob_tokens.form = "malformed" THEN <<NoToken, NoToken>>
    ELSE <<IF Len(clob_tokens.ids) > 0 THEN clob_tokens.ids[1] ELSE NoToken,
           IF Len(clob_tokens.ids) > 1 THEN clob_tokens.ids[2] ELSE NoToken>>

\* market_record built from one catalog market: the token ids supplied, or
\* derived from the condition id; no event_id.
MarketRecord(market_data) ==
    LET tokens == IF Supplies(market_data.clobTokenIds)
                  THEN ClobTokens(market_data.clobTokenIds)
                  ELSE DeriveTokenIds(market_data.conditionId)
    IN [event_id |-> NoEvent, slug |-> market_data.slug,
        condition_id |-> market_data.conditionId,
        yes_token_id |-> tokens[1], no_token_id |-> tokens[2]]

\* One iteration of the for loop of sync_markets_from_gamma: the market is
\* skipped without a condition id, upserted and counted, or, when the upsert
\* raises, logged and passed over.
SyncOne(st, market_data) ==
    IF market_data.conditionId = "NULL"
    THEN [st EXCEPT !.outcomes = Append(@, "skipped")]
    ELSE LET r == UpsertMarket(st.table, st.seq, MarketRecord(market_data))
         IN IF r.raised
            THEN [st EXCEPT !.outcomes = Append(@, "failed")]
            ELSE [table |-> r.table, seq |-> r.seq,
                  synced |-> st.synced + 1,
                  outcomes |-> Append(st.outcomes, "synced")]

\* The for loop over the first n markets of the catalog.
RECURSIVE SyncLoop(_, _, _, _)
SyncLoop(table, seq, catalog, n) ==
    IF n = 0
    THEN [table |-> table, seq |-> seq, synced |-> 0, outcomes |-> <<>>]
    ELSE SyncOne(SyncLoop(table, seq, catalog, n - 1), catalog[n])

\* PolymarketIndexer.sync_markets_from_gamma(limit): an empty snapshot (or
\* a failing fetch) returns 0; else every market of the snapshot is gone
\* through and the number synced is returned.
SyncMarketsFromGamma(table, seq, catalog) ==
    SyncLoop(table, seq, catalog, Len(catalog))

\* ------------------------------------------------------------ log decoder

\* A raw log as the decoder reads it: transactionHash, logIndex, blockNumber,
\* whether log['address'] is a well-formed address, the number of topics,
\* topics[0], the data payload, and the event it encodes.  topics[0] is a
\* bytes value or a "0x..." string, and is told apart from the OrderFilled
\* signature hash by its first four bytes (prefix) and by the other 28
\* (rest).  data is a bytes value or a "0x..." string of data_len bytes, its
\* hex digits well formed or not, holding the five uint256 words of the
\* event: makerAssetId, takerAssetId, makerAmountFilled, takerAmountFilled,
\* fee.  orderHash and the maker and taker addresses are copied through and
\* left out.
Topic0s ==
    [form : {"bytes", "str_0x"}, prefix : BOOLEAN, rest : BOOLEAN]
        \ {t \in [form : {"bytes", "str_0x"}, prefix : BOOLEAN, rest : BOOLEAN] :
              ~t.prefix /\ ~t.rest}

\* The text the decoder compares: topics[0].hex() for a bytes value (no
\* "0x"), str(topics[0]) for a string (with its "0x"); and the test
\* topic0.startswith('d0a08e8c').
SignatureCheck(topic0) == topic0.form = "bytes" /\ topic0.prefix

\* len(data_hex): data.hex() for a bytes value, data[2:] for a "0x" string.
DataHexLen_KeepsPrefix(data_form, data_len) ==
    IF data_form = "str_0x" THEN 2 * data_len + 2 ELSE 2 * data_len

DataHexLen(data_form, data_len) == 2 * data_len

\* The ABI encoding of the event's five non-indexed arguments: one 32-byte
\* word each, in declaration order.
EncodeData(log) ==
    <<log.maker_asset_id, log.taker_asset_id, log.maker_amount,
      log.taker_amount, log.fee>>

\* int(data_hex[64 * k : 64 * (k + 1)], 16): word k of the payload.
WordAt_AmountsSwapped(words, k) ==
    IF k = 2 THEN words[4] ELSE IF k = 3 THEN words[3] ELSE words[k + 1]

WordAt(words, k) == words[k + 1]

\* The result None, and decoded before the decoder has run.
None == [kind |-> "None"]
Pending == [kind |-> "Pending"]

\* round(usdc / token, 6) of two integers, usdc in units of 10^-6: the
\* quotient in units of 10^-6, rounded half to even as Decimal rounds.
RoundHalfEven(num, den) ==
    LET q == num \div den
        r == num % den
    IN IF 2 * r < den THEN q
       ELSE IF 2 * r > den THEN q + 1
       ELSE IF q % 2 = 0 THEN q ELSE q + 1

\* Decimal(n) of an integer n.  A uint256 amount does not fit a machine
\* integer: an amount is kept as c * 10^e, c a single decimal digit.
Decimal(n) == [c |-> n, e |-> 0]

\* round(price, 6) raises decimal.InvalidOperation when the rounded value
\* needs more than DECIMAL_PREC digits: when the price in units of 10^-6,
\* usdc_amount / token_amount, reaches 10^DECIMAL_PREC.
QuantizeRaises(usdc_amount, token_amount) ==
    LET d == usdc_amount.e - token_amount.e
    IN /\ usdc_amount.c > 0
       /\ \/ d > DECIMAL_PREC
          \/ d = DECIMAL_PREC /\ usdc_amount.c >= token_amount.c

\* round((usdc_amount / 10^6) / token_amount, 6) in units of 10^-6.  With
\* single-digit coefficients the quotient's own rounding to DECIMAL_PREC
\* digits never moves the sixth decimal.
RoundedPrice(usdc_amount, token_amount) ==
    LET d == usdc_amount.e - token_amount.e
    IN IF usdc_amount.c = 0 THEN 0
       ELSE IF d >= 0 THEN RoundHalfEven(usdc_amount.c * 10^d, token_amount.c)
       ELSE IF d = -1 THEN RoundHalfEven(usdc_amount.c, token_amount.c * 10)
       ELSE 0

\* TradeDecoder._calculate_price(usdc_amount, token_amount): the string "0"
\* when token_amount is 0 or when an exception is caught (placeholder), else
\* the price with six decimals, kept as its value in units of 10^-6.
CalculatePrice(usdc_amount, token_amount) ==
    IF token_amount.c = 0 THEN [placeholder |-> TRUE, micro |-> 0]
    ELSE IF QuantizeRaises(usdc_amount, token_amount)
    THEN [placeholder |-> TRUE, micro |-> 0]
    ELSE [placeholder |-> FALSE,
          micro |-> RoundedPrice(usdc_amount, token_amount)]

\* price_args before the first call of _calculate_price.
NoCall == [kind |-> "NoCall"]

\* The side inferred from the two asset ids: the if / elif / else of
\* _parse_order_filled_log ("NONE": return None).
SideOf_NeverRejects(maker_asset_id, taker_asset_id) ==
    IF maker_asset_id = 0 THEN "BUY" ELSE "SELL"

SideOf(maker_asset_id, taker_asset_id) ==
    IF maker_asset_id = 0 THEN "BUY"
    ELSE IF taker_asset_id = 0 THEN "SELL"
    ELSE "NONE"

\* An exception raised inside the try block of _parse_order_filled_log.
Raised == [kind |-> "Raised"]

\* The try block of _parse_order_filled_log, in source order: the exchange
\* address, the topic count, the signature, the data length, the five
\* words, the side, the Trade.
ParseBody(tx_hash, log_index, log) ==
    IF ~log.address_ok THEN Raised
    ELSE IF log.topics_len < MIN_TOPICS THEN None
    ELSE IF ~SignatureCheck(log.topic0) THEN None
    ELSE IF DataHexLen(log.data_form, log.data_len) < MIN_DATA_HEX THEN None
    ELSE IF ~log.data_hex_ok THEN Raised
    ELSE LET words == EncodeData(log)
             maker_asset_id == WordAt(words, 0)
             taker_asset_id == WordAt(words, 1)
             maker_amount_raw == WordAt(words, 2)
             taker_amount_raw == WordAt(words, 3)
             fee_raw == WordAt(words, 4)
             side == SideOf(maker_asset_id, taker_asset_id)
         IN
         IF side = "NONE" THEN None
         ELSE [kind |-> "Trade", tx_hash |-> tx_hash, log_index |-> log_index,
               maker_asset_id |-> maker_asset_id,
               taker_asset_id |-> taker_asset_id,
               maker_amount |-> maker_amount_raw,
               taker_amount |-> taker_amount_raw,
               fee |-> fee_raw,
               price |-> IF side = "BUY"
                         THEN CalculatePrice(Decimal(maker_amount_raw),
                                             Decimal(taker_amount_raw))
                         ELSE CalculatePrice(Decimal(taker_amount_raw),
                                             Decimal(maker_amount_raw)),
               token_id |-> IF side = "BUY" THEN taker_asset_id
                            ELSE maker_asset_id,
               side |-> side]

\* except Exception as e: logger.debug(...); return None
Catch_Reraises(result) == result

Catch(result) == IF result = Raised THEN None ELSE result

\* TradeDecoder._parse_order_filled_log(tx_hash, log_index, log).
ParseOrderFilledLog(tx_hash, log_index, log) ==
    Catch(ParseBody(tx_hash, log_index, log))

\* PolymarketIndexer.parse_log_to_trade(log): the Trade with the log's
\* blockNumber (the pair (Trade, block_number), kept as one record), or None.
ParseLogToTrade(log) ==
    LET trade == ParseOrderFilledLog(log.transactionHash, log.logIndex, log)
    IN IF trade = None THEN None
       ELSE [tx_hash |-> trade.tx_hash, log_index |-> trade.log_index,
             maker_asset_id |-> trade.maker_asset_id,
             taker_asset_id |-> trade.taker_asset_id,
             maker_amount |-> trade.maker_amount,
             taker_amount |-> trade.taker_amount, fee |-> trade.fee,
             price |-> trade.price, token_id |-> trade.token_id,
             side |-> trade.side, block_number |-> log.blockNumber]

\* ------------------------------------------------------------ chain source

\* The OrderFilled logs of the two exchange contracts.  Log i sits in block
\* i * LogStride; two logs share a transaction; odd logs are maker buys and
\* even logs maker sells of token 1, except log 3, which trades token 1 for
\* token 2 and is one the decoder rejects.
ChainLogs ==
    {[id |-> i, transactionHash |-> (i + 1) \div 2, logIndex |-> i % 2,
      blockNumber |-> i * LogStride, address_ok |-> TRUE, topics_len |-> 4,
      topic0 |-> [form |-> "bytes", prefix |-> TRUE, rest |-> TRUE],
      data_form |-> "bytes", data_len |-> 160, data_hex_ok |-> TRUE,
      maker_asset_id |-> IF i = 3 THEN 2 ELSE IF i % 2 = 1 THEN 0 ELSE 1,
      taker_asset_id |-> IF i % 2 = 1 THEN 1 ELSE 0,
      maker_amount |-> 1, taker_amount |-> 1, fee |-> 0] : i \in 1..NumLogs}

RECURSIVE SeqOfLogs(_)
SeqOfLogs(S) ==
    IF S = {} THEN <<>>
    ELSE LET first == CHOOSE l \in S : \A m \in S : l.id <= m.id
         IN <<first>> \o SeqOfLogs(S \ {first})

\* PolymarketIndexer.fetch_order_filled_logs(from_block, to_block) against a
\* chain of height h: the logs of the range in chain order, or [] when
\* get_logs raises (the except branch logs the error and returns []).
FetchOrderFilledLogs(lo, hi, h, ok) ==
    IF ok
    THEN SeqOfLogs({l \in ChainLogs : lo <= l.blockNumber /\ l.blockNumber <= hi
                                      /\ l.blockNumber <= h})
    ELSE <<>>

\* PolymarketIndexer.process_logs_batch: the logs parse_log_to_trade
\* decodes, each as (Trade, block_number), in the order of the logs.
ProcessLogsBatch_StopsAtFirstFailure(logs) ==
    LET bad == {i \in 1..Len(logs) : ParseLogToTrade(logs[i]) = None}
        n == IF bad = {} THEN Len(logs)
             ELSE (CHOOSE i \in bad : \A j \in bad : i <= j) - 1
    IN [i \in 1..n |-> ParseLogToTrade(logs[i])]

ProcessLogsBatch(logs) ==
    LET good == SelectSeq(logs, LAMBDA l : ParseLogToTrade(l) # None)
    IN [i \in 1..Len(good) |-> ParseLogToTrade(good[i])]

\* One trade of enrich_trades_with_market: the dict of the trade with the
\* linkage of its token id, empty when the mapping has no such key.
EnrichOne(token_to_market, t) ==
    LET known == t.token_id \in DOMAIN token_to_market
    IN [tx_hash |-> t.tx_hash, log_index |-> t.log_index,
        maker_asset_id |-> t.maker_asset_id,
        taker_asset_id |-> t.taker_asset_id,
        maker_amount |-> t.maker_amount,
        taker_amount |-> t.taker_amount, fee |-> t.fee,
        price |-> t.price, token_id |-> t.token_id,
        side |-> t.side,
        block_number |-> t.block_number,
        market_slug |-> IF known THEN token_to_market[t.token_id].slug
                        ELSE "NULL",
        condition_id |-> IF known THEN token_to_market[t.token_id].condition_id
                         ELSE "NULL",
        outcome |-> IF known THEN token_to_market[t.token_id].outcome
                    ELSE "NULL"]

\* PolymarketIndexer.enrich_trades_with_market(trades): one dict per trade,
\* in order, linked by the mapping read from the store.
EnrichTradesWithMarket_DropsUnlinked(table, tuples) ==
    LET token_to_market == GetTokenToMarketMapping(table)
        linked == SelectSeq(tuples,
                    LAMBDA t : t.token_id \in DOMAIN token_to_market)
    IN [i \in 1..Len(linked) |-> EnrichOne(token_to_market, linked[i])]

EnrichTradesWithMarket(table, tuples) ==
    LET token_to_market == GetTokenToMarketMapping(table)
    IN [i \in 1..Len(tuples) |-> EnrichOne(token_to_market, tuples[i])]

Min(a, b) == IF a <= b THEN a ELSE b

TupleKeys(tuples) == {Key(tuples[i]) : i \in 1..Len(tuples)}

\* ------------------------------------------------------ scanner processes

\* Two indexer processes opened on one database file.
Scanners == {1, 2}

\* db_lock when no connection holds the write lock.
NoScanner == 0

\* A scanner process before run_indexer is called in it.
IdleScanner ==
    [pc |-> "idle", batch_start |-> 0, batch_end |-> 0, to_block |-> 0,
     batch |-> <<>>, i |-> 0, inserted |-> 0, pending |-> <<>>, total |-> 0]

\* -------------------------------------------------------- MCP stdio server

\* mcp_line before any line was read.
NoLine == [form |-> "none"]

\* ------------------------------------------------------------------- Init

\* prev_run when the previous run is none of interest.
NoRun ==
    [fixed_range |-> FALSE, from_block |-> 0, to_block |-> 0, chain |-> 0,
     rows |-> 0, cursor |-> InitSyncState]

\* log_in before any log was handed to the decoder.
NoLog == [kind |-> "NoLog"]

NoOp ==
    [op |-> "none", keys |-> {}, fault |-> "none", ret |-> 0,
     raised |-> FALSE, applied |-> {}]

\* The state after init_db and PolymarketIndexer.__init__: empty trades
\* table, sync_state row ('indexer', 0, 0), no invocation running.
Init ==
    /\ trades = <<>>
    /\ sync_state = InitSyncState
    /\ height = HeightStep
    /\ pc = "idle"
    /\ mode = "catchup"
    /\ continuous = FALSE
    /\ from_given = FALSE
    /\ to_given = FALSE
    /\ current_block = 0
    /\ start_block = 0
    /\ to_block = 0
    /\ batch_start = 0
    /\ batch_end = 0
    /\ trade_tuples = <<>>
    /\ total_trades_stored = 0
    /\ last_processed_block = 0
    /\ status = "none"
    /\ run_no = 0
    /\ fetch_error = FALSE
    /\ store_error = FALSE
    /\ fetched = {}
    /\ done_ranges = {}
    /\ ok_ranges = {}
    /\ prev_done = {}
    /\ prev_end = "none"
    /\ acked = {}
    /\ cursor_writer = 0
    /\ prev_run = NoRun
    /\ faults = 0
    /\ last_op = NoOp
    /\ log_in = NoLog
    /\ decoded = Pending
    /\ price_args = NoCall
    /\ price_out = Pending
    /\ markets = <<>>
    /\ market_seq = 0
    /\ market_op = NoMarketOp
    /\ scanners = [p \in Scanners |-> IdleScanner]
    /\ db_lock = NoScanner
    /\ returned = 0
    /\ mcp_state = "running"
    /\ mcp_read = 0
    /\ mcp_line = NoLine
    /\ mcp_out = <<>>

\* ------------------------------------------------- StoreSpec: direct calls

\* The trade dicts a caller may submit: key k of NumKeys, a maker buy of
\* token 1, as decoded before its market is known (linkage empty); and the
\* first of them as submitted again afterwards (market 1, outcome YES,
\* another fee).
TradeDict(k, linked) ==
    [tx_hash |-> (k + 1) \div 2, log_index |-> k % 2,
     maker_asset_id |-> 0, taker_asset_id |-> 1,
     maker_amount |-> 1, taker_amount |-> 1,
     fee |-> IF linked THEN 1 ELSE 0,
     price |-> CalculatePrice(Decimal(1), Decimal(1)), token_id |-> 1, side |-> "BUY",
     block_number |-> k * LogStride,
     market_id |-> IF linked THEN 1 ELSE NoMarketId,
     market_slug |-> IF linked THEN "a" ELSE "NULL",
     condition_id |-> IF linked THEN "A" ELSE "NULL",
     outcome |-> IF linked THEN "YES" ELSE "NULL"]

TradeDicts ==
    {TradeDict(k, FALSE) : k \in 1..NumKeys} \cup {TradeDict(1, TRUE)}

Batches == UNION {[1..n -> TradeDicts] : n \in 0..MaxBatchLen}

\* The row of the table holding the key of d differs from what d would store.
StoredDiffers(tbl, d) ==
    \E i \in 1..Len(tbl) : Key(tbl[i]) = Key(d) /\ tbl[i] # TradeRow(d)

\* A caller invokes DataStore.insert_trade(trade).
CallInsertTrade ==
    /\ Len(trades) < MaxRows
    /\ \E d \in TradeDicts, f \in StoreFaults(1) :
          LET r == InsertTrade(trades, d, f) IN
          /\ trades' = r.table
          /\ last_op' = [op |-> "insert_trade", keys |-> {Key(d)},
                         differs |-> StoredDiffers(trades, d), fault |-> f.kind, ret |-> r.ret, raised |-> r.raised,
                         applied |-> r.applied]
    /\ UNCHANGED <<sync_state, height, indexerVars, historyVars, decoderVars, priceVars, marketVars, scanVars, mcpVars>>

\* A caller invokes DataStore.insert_trades(trades).
CallInsertTrades ==
    /\ \E b \in Batches :
          /\ Len(trades) + Len(b) <= MaxRows
          /\ \E f \in StoreFaults(Len(b)) :
                LET r == InsertTrades(trades, b, f) IN
                /\ trades' = r.table
                /\ last_op' = [op |-> "insert_trades", keys |-> TupleKeys(b),
                               differs |-> \E i \in 1..Len(b) :
                                              StoredDiffers(trades, b[i]),
                               fault |-> f.kind, ret |-> r.ret,
                               raised |-> r.raised, applied |-> r.applied]
    /\ UNCHANGED <<sync_state, height, indexerVars, historyVars, decoderVars, priceVars, marketVars, scanVars, mcpVars>>

StoreNext == CallInsertTrade \/ CallInsertTrades

StoreSpec == Init /\ [][StoreNext]_vars

NoDuplicateKeys(tbl) ==
    \A i, j \in 1..Len(tbl) : Key(tbl[i]) = Key(tbl[j]) => i = j

\* C3: the trades table never holds two rows with one (tx_hash, log_index),
\* and a call that submits only keys already stored changes nothing and lets
\* no exception escape (unless sqlite3.connect itself failed).
C3_IdentityKeyUnique ==
    /\ []NoDuplicateKeys(trades)
    /\ [][last_op'.keys \subseteq StoredKeys(trades)
            => /\ trades' = trades
               /\ (last_op'.fault # "connect" => ~last_op'.raised)]_vars

\* C3 witness: a key was submitted twice in one batch and again in a later
\* call, and the table holds it once.
C3_Witness ==
    /\ last_op.op = "insert_trades"
    /\ last_op.fault = "none"
    /\ last_op.keys # {}
    /\ last_op.applied = {}
    /\ Len(trades) = NumKeys

\* C4: insert_trades returns the number of rows it added, and returns 0 and
\* adds nothing when every submitted key is already stored.
C4_InsertTradesIdempotent ==
    [][(last_op'.op = "insert_trades" /\ ~last_op'.raised)
        => /\ last_op'.ret = Len(trades') - Len(trades)
           /\ (last_op'.keys \subseteq StoredKeys(trades)
                  => last_op'.ret = 0 /\ Len(trades') = Len(trades))]_vars

\* C4 witness: a batch whose keys are all stored was inserted again without
\* fault, and 0 was returned.
C4_Witness ==
    /\ last_op.op = "insert_trades"
    /\ last_op.fault = "none"
    /\ Cardinality(last_op.keys) = MaxBatchLen
    /\ last_op.keys \subseteq StoredKeys(trades)
    /\ last_op.applied = {}
    /\ last_op.ret = 0

\* C5 (as claimed): whatever fails in insert_trades, the rows applied before
\* the failure are in the table afterwards.
C5_AppliedRowsSurvive ==
    last_op.op = "insert_trades" => last_op.applied \subseteq StoredKeys(trades)

\* ------------------------------------------- DecoderSpec: one log decoded

\* The raw logs handed to the decoder: topic counts, signatures and data
\* lengths on both sides of each check, both representations of topics[0]
\* and of data, malformed addresses and hex digits, every pair of asset ids
\* and of filled amounts within the bounds.
DecoderLogs ==
    [transactionHash : {1}, logIndex : {0}, blockNumber : {LogStride},
     address_ok : BOOLEAN,
     topics_len : {0, MIN_TOPICS - 1, MIN_TOPICS},
     topic0 : Topic0s,
     data_form : {"bytes", "str_0x"},
     data_len : {(MIN_DATA_HEX \div 2) - 1, MIN_DATA_HEX \div 2},
     data_hex_ok : BOOLEAN,
     maker_asset_id : 0..MaxAssetId, taker_asset_id : 0..MaxAssetId,
     maker_amount : 0..MaxAmount, taker_amount : 0..MaxAmount,
     fee : {0, 1}]

\* trade_decoder._parse_order_filled_log(tx_hash, log_index, log) is called
\* on a log, as parse_log_to_trade calls it.
DecodeLog ==
    /\ decoded = Pending
    /\ \E log \in DecoderLogs :
          /\ log_in' = log
          /\ decoded' = ParseOrderFilledLog(log.transactionHash, log.logIndex, log)
    /\ UNCHANGED <<storeVars, height, indexerVars, historyVars, last_op, priceVars, marketVars, scanVars, mcpVars>>

\* run_batch, steps 2 to 4, on the one-log batch [log_in]: what the decoder
\* accepted is enriched and inserted.
StoreDecoded ==
    /\ decoded \notin {Pending, None}
    /\ trades = <<>>
    /\ LET tuples == ProcessLogsBatch(<<log_in>>)
           r == InsertTrades(trades, EnrichTradesWithMarket(markets, tuples),
                             [kind |-> "none", row |-> 0])
       IN trades' = r.table
    /\ UNCHANGED <<sync_state, height, indexerVars, historyVars, last_op,
                   decoderVars, priceVars, marketVars, scanVars, mcpVars>>

DecoderNext == DecodeLog \/ StoreDecoded

DecoderSpec == Init /\ [][DecoderNext]_vars

\* log_in passes the three checks made before the asset ids are read.
WellFormed(log) ==
    /\ log.address_ok
    /\ log.topics_len >= MIN_TOPICS
    /\ log.topic0.prefix
    /\ log.topic0.form = "bytes"
    /\ 2 * log.data_len >= MIN_DATA_HEX
    /\ log.data_hex_ok

\* C18 (as claimed): a log with the OrderFilled signature whose two asset
\* ids are both zero yields no Trade, and every stored trade has exactly one
\* asset id equal to zero.
C18_BothZeroRejected ==
    /\ (decoded # Pending /\ log_in.topic0.rest
        /\ log_in.maker_asset_id = 0
        /\ log_in.taker_asset_id = 0) => decoded = None
    /\ (decoded # Pending /\ log_in.topic0.rest)
          => \A i \in 1..Len(trades) :
                (trades[i].maker_asset_id = 0) # (trades[i].taker_asset_id = 0)

\* C19: a log whose two asset ids are both nonzero yields no Trade, whatever
\* its topics, data length and amounts are.
C19_BothNonzeroRejected ==
    (decoded # Pending /\ log_in.maker_asset_id # 0
     /\ log_in.taker_asset_id # 0) => decoded = None

\* C19 witness: a log that passes the topic and length checks, with positive
\* amounts and both asset ids nonzero, was decoded to None.
C19_Witness ==
    /\ decoded = None
    /\ log_in # NoLog
    /\ WellFormed(log_in)
    /\ log_in.maker_asset_id # 0 /\ log_in.taker_asset_id # 0
    /\ log_in.maker_asset_id # log_in.taker_asset_id
    /\ log_in.maker_amount > 0 /\ log_in.taker_amount > 0

\* C20 (as claimed): a log with the OrderFilled signature, exactly one
\* asset id zero and a zero price denominator (takerAmount on a BUY,
\* makerAmount on a SELL) yields no Trade.
C20_ZeroDenominatorRejected ==
    (/\ decoded # Pending
     /\ log_in.topic0.rest
     /\ \/ /\ log_in.maker_asset_id = 0 /\ log_in.taker_asset_id # 0
           /\ log_in.taker_amount = 0
        \/ /\ log_in.maker_asset_id # 0 /\ log_in.taker_asset_id = 0
           /\ log_in.maker_amount = 0)
        => decoded = None

\* log is a well-formed OrderFilled log but for its topics[0]: address,
\* topic count, data length and hex digits pass, and exactly one of its
\* asset ids is zero.
ValidButSignature(log) ==
    /\ log.address_ok
    /\ log.topics_len >= MIN_TOPICS
    /\ 2 * log.data_len >= MIN_DATA_HEX
    /\ log.data_hex_ok
    /\ (log.maker_asset_id = 0) # (log.taker_asset_id = 0)

\* C21 (as claimed): an otherwise valid log whose topics[0] differs from the OrderFilled
\* signature hash in any byte is rejected, and an otherwise valid log whose
\* topics[0] equals the hash, as bytes or as a string, is accepted.
C21_FullSignatureRequired ==
    decoded # Pending
        => /\ ((ValidButSignature(log_in)
                /\ ~(log_in.topic0.prefix /\ log_in.topic0.rest))
                  => decoded = None)
           /\ ((ValidButSignature(log_in) /\ log_in.topic0.prefix
                /\ log_in.topic0.rest) => decoded # None)

\* C22: a log with fewer than MIN_TOPICS topics yields no Trade, and a log
\* whose data is shorter than 160 bytes yields no Trade.
C22_ShortLogsRejected ==
    (decoded # Pending
     /\ (log_in.topics_len < MIN_TOPICS \/ log_in.data_len < 160))
        => decoded = None

\* C22 witness: a log valid in everything but its data, a "0x" string one
\* byte short of 160, was decoded to None.
C22_Witness ==
    /\ decoded = None
    /\ log_in # NoLog
    /\ log_in.address_ok /\ log_in.topics_len >= MIN_TOPICS
    /\ log_in.topic0 = [form |-> "bytes", prefix |-> TRUE, rest |-> TRUE]
    /\ log_in.data_form = "str_0x" /\ log_in.data_len = 159
    /\ log_in.data_hex_ok
    /\ log_in.maker_asset_id = 0 /\ log_in.taker_asset_id # 0
    /\ log_in.maker_amount > 0 /\ log_in.taker_amount > 0

\* C23: whatever the log, the decoder returns a Trade or None; no exception
\* raised inside it reaches the caller.
C23_DecoderTotal ==
    decoded # Pending => decoded.kind \in {"Trade", "None"}

\* C23 witness: a log whose address is malformed, and one whose data holds
\* malformed hex digits behind valid topics and length, was decoded to None.
C23_Witness ==
    /\ decoded = None
    /\ log_in # NoLog
    /\ log_in.topics_len >= MIN_TOPICS
    /\ SignatureCheck(log_in.topic0)
    /\ 2 * log_in.data_len >= MIN_DATA_HEX
    /\ (log_in.address_ok # log_in.data_hex_ok)
    /\ (log_in.maker_asset_id = 0) # (log_in.taker_asset_id = 0)

\* C24: a well-formed log with exactly one asset id zero yields a Trade; a
\* Trade has side BUY and the taker asset as token when makerAssetId is 0
\* and takerAssetId is not, side SELL and the maker asset as token when
\* takerAssetId is 0 and makerAssetId is not; its asset ids, amounts and fee
\* are the five words of the payload in order.
C24_SideTokenAndRawFields ==
    /\ (decoded # Pending /\ WellFormed(log_in)
        /\ ((log_in.maker_asset_id = 0) # (log_in.taker_asset_id = 0)))
          => decoded.kind = "Trade"
    /\ (decoded # Pending /\ decoded.kind = "Trade")
          => /\ decoded.maker_asset_id = log_in.maker_asset_id
             /\ decoded.taker_asset_id = log_in.taker_asset_id
             /\ decoded.maker_amount = log_in.maker_amount
             /\ decoded.taker_amount = log_in.taker_amount
             /\ decoded.fee = log_in.fee
             /\ ((log_in.maker_asset_id = 0 /\ log_in.taker_asset_id # 0)
                    => /\ decoded.side = "BUY"
                       /\ decoded.token_id = log_in.taker_asset_id)
             /\ ((log_in.taker_asset_id = 0 /\ log_in.maker_asset_id # 0)
                    => /\ decoded.side = "SELL"
                       /\ decoded.token_id = log_in.maker_asset_id)

\* C24 witness: a SELL was decoded from a log whose five words all differ
\* where they can.
C24_Witness ==
    /\ decoded # Pending /\ decoded # None
    /\ decoded.side = "SELL"
    /\ decoded.token_id = MaxAssetId
    /\ decoded.maker_amount = 1 /\ decoded.taker_amount = MaxAmount
    /\ decoded.fee = 1

\* ---------------------------------------- PriceSpec: _calculate_price called

\* The amounts handed to _calculate_price: 0 and single digits, as they are
\* and scaled by 10^BigExp, a magnitude a uint256 word can hold.
BigExp == DECIMAL_PREC + 1
Amounts == [c : 0..MaxCoef, e : {0, BigExp}]

\* TradeDecoder._calculate_price(usdc_amount, token_amount) is called.
CallCalculatePrice ==
    /\ \E usdc_amount \in Amounts, token_amount \in Amounts :
          /\ price_args' = [usdc_amount |-> usdc_amount,
                            token_amount |-> token_amount]
          /\ price_out' = CalculatePrice(usdc_amount, token_amount)
    /\ UNCHANGED <<storeVars, height, indexerVars, historyVars, last_op,
                   decoderVars, marketVars, scanVars, mcpVars>>

PriceNext == CallCalculatePrice

PriceSpec == Init /\ [][PriceNext]_vars

\* C25 (as claimed): for positive amounts the price is the quotient
\* (usdc_amount / 10^6) / token_amount rounded to six decimals: never the
\* placeholder "0", and within half a unit of the sixth decimal of the
\* quotient (compared where the quotient is at most one digit long).
C25_PriceRoundedToSixDecimals ==
    (price_args # NoCall /\ price_args.usdc_amount.c > 0
     /\ price_args.token_amount.c > 0)
        => LET u == price_args.usdc_amount
               t == price_args.token_amount
               m == price_out.micro
               diff == m * t.c - u.c
           IN /\ ~price_out.placeholder
              /\ u.e = t.e => (2 * diff <= t.c /\ 2 * (0 - diff) <= t.c)
              /\ u.e < t.e - 1 => m = 0

\* ------------------------------------ MarketSpec: markets upserted, synced

\* The records handed to upsert_market directly: with or without an event
\* and a slug, the two tokens either way round, or the YES token missing.
TokenPairs == {<<1, 2>>, <<2, 1>>, <<NoToken, 2>>}
MarketRecords ==
    {[event_id |-> e, slug |-> sl, condition_id |-> cid,
      yes_token_id |-> tp[1], no_token_id |-> tp[2]] :
        e \in {NoEvent, 1}, sl \in Slugs \cup {"NULL"},
        cid \in ConditionIds, tp \in TokenPairs}

\* The markets of a catalog snapshot, and the snapshots.
CatalogMarkets ==
    [conditionId : ConditionIds \cup {"NULL"}, slug : Slugs,
     clobTokenIds : ClobTokenIds]
Catalogs ==
    UNION {[1..n -> CatalogMarkets] : n \in 0..MaxCatalog}

\* The decoded trades of one batch: a BUY of token t at log position k.
MarketTrade(k, t) ==
    [tx_hash |-> 1, log_index |-> k, maker_asset_id |-> 0,
     taker_asset_id |-> t, maker_amount |-> 1, taker_amount |-> 1,
     fee |-> 0, price |-> CalculatePrice(Decimal(1), Decimal(1)),
     token_id |-> t, side |-> "BUY", block_number |-> LogStride]
TradeTokens == {1, DeriveTokenIds("A")[1], UnknownToken}
MarketBatches ==
    {<<MarketTrade(0, t)>> : t \in TradeTokens}
    \cup {<<MarketTrade(0, t1), MarketTrade(1, t2)>> :
             t1 \in TradeTokens, t2 \in TradeTokens}

\* DataStore.upsert_market(market) is called.
CallUpsertMarket ==
    /\ market_seq < MaxUpserts
    /\ \E market \in MarketRecords :
          LET r == UpsertMarket(markets, market_seq, market)
              i == RowOf(markets, market.condition_id)
          IN /\ markets' = r.table
             /\ market_seq' = r.seq
             /\ market_op' = [op |-> "upsert_market", market |-> market,
                              existed |-> i # 0,
                              old_id |-> IF i = 0 THEN 0 ELSE markets[i].id,
                              raised |-> r.raised, ret |-> r.ret]
    /\ UNCHANGED <<storeVars, height, indexerVars, historyVars, last_op,
                   decoderVars, priceVars, scanVars, mcpVars>>

\* PolymarketIndexer.sync_markets_from_gamma is called on a store without
\* markets, as the pre-step of the first run.
CallSyncMarkets ==
    /\ market_op = NoMarketOp
    /\ \E catalog \in Catalogs :
          LET r == SyncMarketsFromGamma(markets, market_seq, catalog)
          IN /\ markets' = r.table
             /\ market_seq' = r.seq
             /\ market_op' = [op |-> "sync", catalog |-> catalog,
                              outcomes |-> r.outcomes, ret |-> r.synced]
    /\ UNCHANGED <<storeVars, height, indexerVars, historyVars, last_op,
                   decoderVars, priceVars, scanVars, mcpVars>>

\* run_batch, steps 3 and 4, on the decoded trades of a first batch: they
\* are enriched from the markets in the store and inserted.
EnrichBatch ==
    /\ trades = <<>>
    /\ \E tuples \in MarketBatches :
          LET dicts == EnrichTradesWithMarket(markets, tuples)
              r == InsertTrades(trades, dicts, [kind |-> "none", row |-> 0])
          IN /\ trades' = r.table
             /\ market_op' = [op |-> "enrich", tuples |-> tuples,
                              dicts |-> dicts]
    /\ UNCHANGED <<sync_state, height, indexerVars, historyVars, last_op,
                   decoderVars, priceVars, markets, market_seq, scanVars, mcpVars>>

MarketNext == CallUpsertMarket \/ CallSyncMarkets

MarketSpec == Init /\ [][MarketNext]_vars

\* ------------------------------- EnrichSpec: a first run with market sync

EnrichNext == CallSyncMarkets \/ EnrichBatch

EnrichSpec == Init /\ [][EnrichNext]_vars

\* ------------------------------------------------ claims about the markets

\* The token identifiers of the markets in the table.
MarketTokens(table) ==
    {table[i].yes_token_id : i \in 1..Len(table)}
    \cup {table[i].no_token_id : i \in 1..Len(table)}

\* C26: the dicts handed to the store are the decoded trades, one each and
\* in order, every one of them is in the trades table afterwards, and a
\* trade whose token is that of no market carries no slug, condition id or
\* outcome and is stored with outcome NULL.
C26_EnrichKeepsEveryTrade ==
    market_op.op = "enrich"
        => LET tuples == market_op.tuples
               dicts == market_op.dicts
           IN /\ Len(dicts) = Len(tuples)
              /\ \A i \in 1..Len(tuples) :
                    /\ Key(dicts[i]) = Key(tuples[i])
                    /\ dicts[i].token_id = tuples[i].token_id
                    /\ Key(tuples[i]) \in StoredKeys(trades)
                    /\ tuples[i].token_id \notin MarketTokens(markets)
                          => /\ dicts[i].market_slug = "NULL"
                             /\ dicts[i].condition_id = "NULL"
                             /\ dicts[i].outcome = "NULL"
                             /\ \A k \in 1..Len(trades) :
                                   Key(trades[k]) = Key(tuples[i])
                                      => trades[k].outcome = "NULL"

\* C26 witness: with a market in the store, a batch of one trade of that
\* market and one trade of an unknown token was enriched and stored.
C26_Witness ==
    /\ market_op.op = "enrich"
    /\ markets # <<>>
    /\ Len(market_op.tuples) = 2
    /\ market_op.tuples[1].token_id \in MarketTokens(markets)
    /\ market_op.dicts[1].outcome = "YES"
    /\ market_op.tuples[2].token_id = UnknownToken
    /\ Len(trades) = 2

\* C27 (as claimed): the mapping holds, for every market in the table, its
\* YES token mapped to (slug, condition id, "YES") and its NO token mapped
\* to (slug, condition id, "NO"), and no other key.
C27_MappingCoversEveryMarket ==
    LET mapping == GetTokenToMarketMapping(markets)
    IN /\ \A i \in 1..Len(markets) :
             /\ markets[i].yes_token_id \in DOMAIN mapping
             /\ mapping[markets[i].yes_token_id] =
                   [slug |-> markets[i].slug,
                    condition_id |-> markets[i].condition_id,
                    outcome |-> "YES"]
             /\ markets[i].no_token_id \in DOMAIN mapping
             /\ mapping[markets[i].no_token_id] =
                   [slug |-> markets[i].slug,
                    condition_id |-> markets[i].condition_id,
                    outcome |-> "NO"]
       /\ DOMAIN mapping \subseteq MarketTokens(markets)

\* C28 (as claimed): there is at most one row per condition_id; an upsert of
\* a record with both token ids whose condition_id has a row returns that
\* row's id and leaves the row with the same id and the record's values in
\* its other columns; and upserting any record twice leaves the table the
\* first upsert left.
C28_UpsertOverwritesAll ==
    /\ \A i, j \in 1..Len(markets) :
          markets[i].condition_id = markets[j].condition_id => i = j
    /\ (/\ market_op.op = "upsert_market"
        /\ market_op.existed
        /\ market_op.market.yes_token_id # NoToken
        /\ market_op.market.no_token_id # NoToken)
          => LET market == market_op.market
                 row == markets[RowOf(markets, market.condition_id)]
             IN /\ ~market_op.raised
                /\ market_op.ret = market_op.old_id
                /\ row.id = market_op.old_id
                /\ row.slug = market.slug
                /\ row.yes_token_id = market.yes_token_id
                /\ row.no_token_id = market.no_token_id
                /\ row.event_id = market.event_id
    /\ \A market \in MarketRecords :
          LET once == UpsertMarket(markets, market_seq, market)
          IN UpsertMarket(once.table, once.seq, market).table = once.table

\* Entry i of the catalog has a condition id, supplies two token ids or
\* none, and its slug is that of no earlier entry of another market.
SyncsCleanly(catalog, i) ==
    /\ catalog[i].conditionId # "NULL"
    /\ \/ ~Supplies(catalog[i].clobTokenIds)
       \/ Len(catalog[i].clobTokenIds.ids) >= 2
    /\ \A j \in 1..(i - 1) :
          catalog[j].slug = catalog[i].slug
             => catalog[j].conditionId = catalog[i].conditionId

FromArgs == {{}, {0}, {HeightStep}}
ToArgs == {{}, {MaxHeight - HeightStep}}

TheBlock(arg) == CHOOSE b \in arg : TRUE

\* run_indexer is left (return or propagating interrupt): its locals are
\* gone, stats['status'] is st, and the history of the run becomes that of
\* the previous run, which ended as `how`.
EndRun(st, how) ==
    /\ pc' = "idle"
    /\ status' = st
    /\ mode' = "catchup"
    /\ continuous' = FALSE
    /\ from_given' = FALSE
    /\ to_given' = FALSE
    /\ current_block' = 0
    /\ start_block' = 0
    /\ to_block' = 0
    /\ batch_start' = 0
    /\ batch_end' = 0
    /\ trade_tuples' = <<>>
    /\ total_trades_stored' = 0
    /\ last_processed_block' = 0
    /\ fetch_error' = FALSE
    /\ store_error' = FALSE
    /\ fetched' = {}
    /\ done_ranges' = {}
    /\ ok_ranges' = {}
    /\ prev_done' = done_ranges
    /\ prev_end' = how
    /\ prev_run' = IF st = "completed" /\ from_given /\ to_given
                       /\ current_block = height
                    THEN [fixed_range |-> TRUE, from_block |-> start_block,
                          to_block |-> to_block, chain |-> height,
                          rows |-> Len(trades), cursor |-> sync_state]
                    ELSE NoRun
    /\ UNCHANGED <<storeVars, height, run_no, acked, cursor_writer, faults,
                   last_op, decoderVars, priceVars, marketVars, scanVars, mcpVars>>

\* run_indexer up to the first loop test: current_block is read, from_block
\* defaults to the persisted cursor and to_block to current_block, stats are
\* reset, batch_start = from_block.  (sync_markets = False.)
StartRun ==
    /\ pc = "idle"
    /\ run_no < MaxRuns
    /\ \E fromArg \in FromArgs, toArg \in ToArgs, cont \in BOOLEAN :
          LET from_block == IF fromArg = {} THEN GetSyncLastBlock(sync_state)
                            ELSE TheBlock(fromArg)
          IN /\ from_given' = (fromArg # {})
             /\ to_given' = (toArg # {})
             /\ current_block' = height
             /\ continuous' = cont
             /\ start_block' = from_block
             /\ to_block' = IF toArg = {} THEN height ELSE TheBlock(toArg)
             /\ batch_start' = from_block
    /\ batch_end' = 0
    /\ trade_tuples' = <<>>
    /\ total_trades_stored' = 0
    /\ last_processed_block' = 0
    /\ status' = "running"
    /\ mode' = "catchup"
    /\ pc' = "loop"
    /\ run_no' = run_no + 1
    /\ UNCHANGED <<storeVars, height, fetch_error, store_error, fetched, done_ranges,
                   ok_ranges, prev_done, prev_end, prev_run, acked, cursor_writer, faults,
                   last_op, decoderVars, priceVars, marketVars, scanVars, mcpVars>>

\* batch_end = min(batch_start + self.BATCH_SIZE - 1, to_block)
BatchEnd_NoCap(lo, hi) == lo + BATCH_SIZE - 1

BatchEnd(lo, hi) == Min(lo + BATCH_SIZE - 1, hi)

\* while batch_start <= to_block: batch_end = min(batch_start + BATCH_SIZE - 1, to_block)
BeginBatch ==
    /\ pc = "loop"
    /\ batch_start <= to_block
    /\ batch_end' = BatchEnd(batch_start, to_block)
    /\ pc' = "fetch"
    /\ UNCHANGED <<storeVars, height, mode, continuous, from_given, to_given, current_block, start_block,
                   to_block, batch_start, trade_tuples, total_trades_stored,
                   last_processed_block, status, historyVars, last_op, decoderVars, priceVars, marketVars, scanVars, mcpVars>>

\* The while loop ends: status 'completed'; a one-shot run returns stats, a
\* continuous run enters the polling loop with last_processed_block = to_block.
CatchupDone ==
    /\ pc = "loop"
    /\ batch_start > to_block
    /\ IF continuous
       THEN /\ status' = "completed"
            /\ mode' = "live"
            /\ last_processed_block' = to_block
            /\ pc' = "poll"
            /\ UNCHANGED <<storeVars, height, continuous, from_given, to_given, current_block, start_block,
                           to_block, batch_start, batch_end, trade_tuples,
                           total_trades_stored, historyVars, last_op, decoderVars, priceVars, marketVars, scanVars, mcpVars>>
       ELSE EndRun("completed", "completed")

\* run_batch, steps 1 and 2: fetch the logs of [batch_start, batch_end] and
\* decode them.  With no logs or no decoded trade run_batch returns at once
\* and the caller goes on to the cursor write.
FetchAndDecode ==
    /\ pc = "fetch"
    /\ \E ok \in BOOLEAN :
          LET logs == FetchOrderFilledLogs(batch_start, batch_end, height, ok)
          IN /\ ok \/ faults < MaxFaults
             /\ faults' = IF ok THEN faults ELSE faults + 1
             /\ trade_tuples' = ProcessLogsBatch(logs)
             /\ fetch_error' = ~ok
             /\ store_error' = FALSE
             /\ pc' = IF ProcessLogsBatch(logs) = <<>> THEN "advance" ELSE "store"
    /\ fetched' = fetched \cup {<<batch_start, batch_end>>}
    /\ UNCHANGED <<storeVars, height, mode, continuous, from_given, to_given, current_block, start_block,
                   to_block, batch_start, batch_end, total_trades_stored,
                   last_processed_block, status, run_no, done_ranges, ok_ranges,
                   prev_done, prev_end, prev_run, acked, cursor_writer, last_op, decoderVars, priceVars, marketVars, scanVars, mcpVars>>

\* run_batch, steps 3 and 4: enrich, then store_trades -> insert_trades in one
\* transaction.  A fault the store swallows leaves the returned count as the
\* only trace; sqlite3.connect failing escapes run_batch as an exception.
EnrichAndStore ==
    /\ pc = "store"
    /\ \E f \in StoreFaults(Len(trade_tuples)) :
          LET r == InsertTrades(trades, EnrichTradesWithMarket(markets, trade_tuples), f)
          IN /\ f.kind = "none" \/ faults < MaxFaults
             /\ faults' = IF f.kind = "none" THEN faults ELSE faults + 1
             /\ store_error' = (f.kind # "none")
             /\ IF r.raised
                THEN /\ pc' = "raised"
                     /\ UNCHANGED <<trades, total_trades_stored>>
                ELSE /\ trades' = r.table
                     /\ total_trades_stored' = total_trades_stored + r.ret
                     /\ pc' = "advance"
    /\ UNCHANGED <<sync_state, height, mode, continuous, from_given, to_given, current_block, start_block,
                   to_block, batch_start, batch_end, trade_tuples,
                   last_processed_block, status, run_no, fetch_error, fetched,
                   done_ranges, ok_ranges, prev_done, prev_end, prev_run, acked,
                   cursor_writer, last_op, decoderVars, priceVars, marketVars, scanVars, mcpVars>>

\* run_batch, step 3 failing: get_token_to_market_mapping raises (it has no
\* except branch) and the exception escapes run_batch.
EnrichRaises ==
    /\ pc = "store"
    /\ faults < MaxFaults
    /\ faults' = faults + 1
    /\ store_error' = TRUE
    /\ pc' = "raised"
    /\ UNCHANGED <<storeVars, height, mode, continuous, from_given, to_given, current_block, start_block,
                   to_block, batch_start, batch_end, trade_tuples,
                   total_trades_stored, last_processed_block, status, run_no,
                   fetch_error, fetched, done_ranges, ok_ranges, prev_done,
                   prev_end, prev_run, acked, cursor_writer, last_op, decoderVars, priceVars, marketVars, scanVars, mcpVars>>

\* The lower bound of the next CATCHUP batch, on success (after the cursor
\* write) and in the continuous except branch: batch_start = batch_end + 1.
NextBatchStart_SameBatch(lo, hi) == lo

NextBatchStart(lo, hi) == hi + 1

\* The except Exception branches.  CATCHUP one-shot: status 'error', return.
\* CATCHUP continuous: skip the batch (batch_start = batch_end + 1).  LIVE:
\* log and continue with the next poll.
HandleException ==
    /\ pc = "raised"
    /\ IF mode = "live"
       THEN /\ pc' = "poll"
            /\ trade_tuples' = <<>>
            /\ UNCHANGED <<storeVars, height, mode, continuous, from_given, to_given, current_block,
                           start_block, to_block, batch_start, batch_end,
                           total_trades_stored, last_processed_block, status,
                           historyVars, last_op, decoderVars, priceVars, marketVars, scanVars, mcpVars>>
       ELSE IF continuous
       THEN /\ batch_start' = NextBatchStart(batch_start, batch_end)
            /\ pc' = "loop"
            /\ trade_tuples' = <<>>
            /\ UNCHANGED <<storeVars, height, mode, continuous, from_given, to_given, current_block,
                           start_block, to_block, batch_end,
                           total_trades_stored, last_processed_block, status,
                           historyVars, last_op, decoderVars, priceVars, marketVars, scanVars, mcpVars>>
       ELSE EndRun("error", "error")

\* self.store.update_sync_state(batch_end, stats['total_trades_stored']) and
\* the move to the next batch (CATCHUP: batch_start = batch_end + 1; LIVE:
\* last_processed_block = latest_block).  A failing write is swallowed by
\* update_sync_state, so the loop variable moves on either way.
AdvanceCursor ==
    /\ pc = "advance"
    /\ \E ok \in BOOLEAN :
          /\ ok \/ faults < MaxFaults
          /\ faults' = IF ok THEN faults ELSE faults + 1
          /\ sync_state' = UpdateSyncState(sync_state, batch_end,
                                           total_trades_stored, ok)
          /\ done_ranges' = IF ok THEN done_ranges \cup {<<batch_start, batch_end>>}
                            ELSE done_ranges
          /\ acked' = IF ok THEN acked \cup TupleKeys(trade_tuples) ELSE acked
          /\ cursor_writer' = IF ok THEN run_no ELSE cursor_writer
    /\ ok_ranges' = IF ~fetch_error /\ TupleKeys(trade_tuples) \subseteq StoredKeys(trades)
                    THEN ok_ranges \cup {<<batch_start, batch_end>>}
                    ELSE ok_ranges
    /\ IF mode = "live"
       THEN /\ last_processed_block' = batch_end
            /\ pc' = "poll"
            /\ UNCHANGED batch_start
       ELSE /\ batch_start' = NextBatchStart(batch_start, batch_end)
            /\ pc' = "loop"
            /\ UNCHANGED last_processed_block
    /\ trade_tuples' = <<>>
    /\ UNCHANGED <<trades, height, mode, continuous, from_given, to_given, current_block, start_block,
                   to_block, batch_end, total_trades_stored, status, run_no,
                   fetch_error, store_error, fetched, prev_done, prev_end, prev_run, last_op, decoderVars, priceVars, marketVars, scanVars, mcpVars>>

\* if latest_block > last_processed_block:
HasNewBlocks_Always(latest_block, last) == TRUE

HasNewBlocks(latest_block, last) == latest_block > last

\* LIVE: after the sleep, latest_block = get_current_block(); when it is past
\* last_processed_block, run_batch(last_processed_block + 1, latest_block).
PollNewBlocks ==
    /\ pc = "poll"
    /\ HasNewBlocks(height, last_processed_block)
    /\ batch_start' = last_processed_block + 1
    /\ batch_end' = height
    /\ pc' = "fetch"
    /\ UNCHANGED <<storeVars, height, mode, continuous, from_given, to_given, current_block, start_block,
                   to_block, trade_tuples, total_trades_stored,
                   last_processed_block, status, historyVars, last_op, decoderVars, priceVars, marketVars, scanVars, mcpVars>>

\* KeyboardInterrupt.  In CATCHUP no handler catches it (except Exception does
\* not): run_indexer is left without a result, marked "interrupted" here.  In
\* LIVE the loop breaks and status becomes 'stopped'.  A store call cut short
\* by the interrupt never commits, which is the state before that call.
Interrupt ==
    /\ pc # "idle"
    /\ EndRun(IF mode = "live" THEN "stopped" ELSE "interrupted",
              IF mode = "live" THEN "stopped"
              ELSE IF batch_start <= to_block THEN "mid_catchup"
              ELSE "end_of_catchup")

\* The chain grows by HeightStep blocks.
MineBlocks ==
    /\ height + HeightStep <= MaxHeight
    /\ height' = height + HeightStep
    /\ UNCHANGED <<storeVars, indexerVars, historyVars, last_op, decoderVars, priceVars, marketVars, scanVars, mcpVars>>

Next ==
    \/ StartRun
    \/ BeginBatch
    \/ CatchupDone
    \/ FetchAndDecode
    \/ EnrichAndStore
    \/ EnrichRaises
    \/ HandleException
    \/ AdvanceCursor
    \/ PollNewBlocks
    \/ Interrupt
    \/ MineBlocks

Spec == Init /\ [][Next]_vars

\* ------------------------------------------------- claims about run_indexer

\* Two block ranges share a block.
Overlap(r, q) == ~(r[2] < q[1] \/ q[2] < r[1])

\* C1 (as claimed): after a failed log query in CATCHUP no step advances the
\* persisted cursor, and while the run lives batch_start stays at the failed
\* range, so that range is requested again before a higher block is recorded.
C1_FetchFailureRetried ==
    [][(fetch_error /\ mode = "catchup")
        => /\ sync_state'.last_block = sync_state.last_block
           /\ (pc' = "idle" \/ batch_start' = batch_start)]_vars

\* C2 (as claimed): every trade decoded in a batch whose cursor write was
\* performed is in the trades table.
C2_CursorImpliesStored == acked \subseteq StoredKeys(trades)

\* C6 (as claimed): a run started without from_block after an interrupted
\* CATCHUP requests no block that lies in a batch the interrupted run
\* completed.  Stated for behaviours without any injected fault.
C6_RestartReprocessesNoBlock ==
    (pc # "idle" /\ ~from_given /\ prev_end = "mid_catchup" /\ faults = 0)
        => \A r \in prev_done, q \in fetched : ~Overlap(r, q)

\* C7 (as claimed): no step lowers sync_state.last_block.  Stated for
\* behaviours without any injected fault.
C7_LastBlockOnlyIncreases ==
    [][faults' = 0 => sync_state'.last_block >= sync_state.last_block]_vars

\* C8 (as claimed): once the running invocation has written the cursor,
\* every block from its starting block to last_block lies in a range that
\* was fetched without error and whose decoded trades are all stored.
C8_CursorGapFree ==
    (pc # "idle" /\ cursor_writer = run_no)
        => \A b \in start_block..sync_state.last_block :
              \E r \in ok_ranges : r[1] <= b /\ b <= r[2]

\* C9 (as claimed): whenever a step writes the cursor, the trades decoded in
\* the batch in flight are already in the trades table, so no reader sees
\* the new cursor without them.
C9_TradesBeforeCursor ==
    [][sync_state' # sync_state
        => TupleKeys(trade_tuples) \subseteq StoredKeys(trades)]_vars

\* C10 (as claimed): after every cursor write total_trades is the number of
\* trades stored since the store was created.  Stated for behaviours
\* without any injected fault.
C10_TotalTradesCumulative ==
    [][(faults' = 0 /\ sync_state' # sync_state)
        => sync_state'.total_trades = Len(trades')]_vars

\* The run in flight is left by an operator interrupt in this step.
InterruptStep ==
    /\ pc # "idle"
    /\ pc' = "idle"
    /\ status' \in {"interrupted", "stopped"}

\* The batch in flight has failed: its log query raised, or its store step
\* hit an error (a failed row, a failed commit, a failed connect, a failed
\* read of the token index).
BatchFailed == fetch_error \/ store_error

\* C11 (as claimed): when a one-shot run over a caller-given range completes
\* right after a completed one-shot run over the same range, with the chain
\* at the same height throughout and no fault injected, the trades table has
\* as many rows as after the first run and the sync_state row is the same.
C11_RerunSameResult ==
    [][(/\ pc # "idle" /\ pc' = "idle" /\ status' = "completed"
        /\ prev_run.fixed_range /\ from_given /\ to_given
        /\ start_block = prev_run.from_block /\ to_block = prev_run.to_block
        /\ current_block = prev_run.chain /\ height = prev_run.chain
        /\ faults = 0)
        => /\ Len(trades') = prev_run.rows
           /\ sync_state' = prev_run.cursor]_vars

\* C12: in CATCHUP the ranges requested from the chain start at from_block,
\* each next one starts right after the one before (ascending, contiguous,
\* pairwise disjoint), none is wider than BATCH_SIZE or reaches past
\* to_block, every one but the last is exactly BATCH_SIZE wide, to_block is
\* the height read at entry unless the caller gave it and does not change
\* during the run, and when the loop ends without any fault the ranges
\* cover exactly from_block..to_block.
C12_CatchupRanges ==
    /\ []((pc # "idle" /\ mode = "catchup")
            => /\ (~to_given => to_block = current_block)
               /\ \A r \in fetched :
                     /\ r[1] <= r[2]
                     /\ r[2] <= to_block
                     /\ r[2] - r[1] + 1 <= BATCH_SIZE
                     /\ (r[2] - r[1] + 1 = BATCH_SIZE \/ r[2] = to_block)
                     /\ (r[1] = start_block \/ \E q \in fetched : q[2] + 1 = r[1])
               /\ \A r, q \in fetched : r # q => ~Overlap(r, q)
               /\ ((pc = "loop" /\ batch_start > to_block /\ faults = 0)
                      => UNION {r[1]..r[2] : r \in fetched} = start_block..to_block))
    /\ [][(mode = "catchup" /\ pc' # "idle" /\ fetched' # fetched)
            => /\ \A r \in fetched : r[2] < batch_start
               /\ fetched' = fetched \cup {<<batch_start, batch_end>>}]_vars
    /\ [][(pc # "idle" /\ pc' # "idle") => to_block' = to_block]_vars

\* C12 witness: a CATCHUP pass ended without fault after a full-width range
\* followed by a shorter last one.
C12_Witness ==
    /\ pc = "loop" /\ mode = "catchup" /\ batch_start > to_block /\ faults = 0
    /\ \E r, q \in fetched :
          /\ r[1] = start_block
          /\ r[2] - r[1] + 1 = BATCH_SIZE
          /\ q[1] = r[2] + 1
          /\ q[2] = to_block
          /\ q[2] - q[1] + 1 < BATCH_SIZE

\* C13 (as claimed): in LIVE no range requested from the chain is wider than
\* BATCH_SIZE blocks.  Stated for behaviours without any injected fault.
C13_LiveQueriesBounded ==
    (mode = "live" /\ pc \in {"fetch", "store", "advance", "raised"}
     /\ faults = 0)
        => batch_end - batch_start + 1 <= BATCH_SIZE

\* C14 (as claimed): in LIVE, the step that ends a failed poll cycle goes
\* back to polling (the process lives on) and changes neither the persisted
\* cursor nor last_processed_block, so the next poll starts at the same
\* block.  Steps of an operator interrupt are not steps of the cycle.
C14_LiveFailureRetried ==
    [][(mode = "live" /\ pc \in {"advance", "raised"} /\ BatchFailed
        /\ ~InterruptStep)
        => /\ pc' = "poll"
           /\ sync_state' = sync_state
           /\ last_processed_block' = last_processed_block]_vars

\* C15 (as claimed): in a one-shot run, the step that ends a failed batch
\* leaves run_indexer with status 'error' and does not touch the persisted
\* cursor.  Steps of an operator interrupt are not steps of the batch.
C15_OneShotFailureSurfaces ==
    [][(mode = "catchup" /\ ~continuous /\ pc \in {"advance", "raised"}
        /\ BatchFailed /\ ~InterruptStep)
        => /\ pc' = "idle"
           /\ status' = "error"
           /\ sync_state' = sync_state]_vars

\* C16 (as claimed): an operator interrupt never takes effect between the
\* trade write of a batch and its cursor write, that is, when the trades of
\* the batch in flight are in the trades table and the cursor is still
\* below the batch's upper bound; so the interrupt leaves the cursor at the
\* upper bound of the last batch whose trades are all durable.
C16_InterruptBetweenBatches ==
    [][InterruptStep
        => ~(/\ pc = "advance"
             /\ trade_tuples # <<>>
             /\ TupleKeys(trade_tuples) \subseteq StoredKeys(trades)
             /\ sync_state.last_block < batch_end)]_vars

\* C17 (as claimed): a run given from_block starts there; a run not given
\* from_block starts at the persisted cursor when an earlier run wrote one,
\* and at the current height minus DEFAULT_LOOKBACK when none did.
C17_StartingHeight ==
    [][(pc = "idle" /\ pc' # "idle")
        => /\ current_block' = height
           /\ batch_start' = start_block'
           /\ (from_given' => start_block' \in UNION FromArgs)
           /\ ((~from_given' /\ cursor_writer # 0)
                  => start_block' = sync_state.last_block)
           /\ ((~from_given' /\ cursor_writer = 0)
                  => start_block' = current_block' - DEFAULT_LOOKBACK)]_vars

\* C31 (as claimed): a LIVE cycle requests the range from the last
\* processed block + 1 to the height just read; the last processed block is
\* the CATCHUP target when LIVE is entered, becomes the upper bound of a
\* cycle when that cycle ends without an exception, and does not change
\* otherwise; and the blocks mined while CATCHUP was running, those above
\* the height read at the start of the run, lie above the CATCHUP target,
\* where the first LIVE cycle begins.  Stated for behaviours without any
\* injected fault.
C31_LiveRangesContiguous ==
    [][faults' = 0
        => /\ (pc = "poll" /\ pc' = "fetch")
                => /\ batch_start' = last_processed_block + 1
                   /\ batch_end' = height
           /\ (pc = "loop" /\ pc' = "poll")
                => /\ last_processed_block' = to_block
                   /\ (height > current_block => to_block <= current_block)
           /\ (mode = "live" /\ mode' = "live")
                => last_processed_block' =
                      IF pc = "advance" /\ pc' = "poll" THEN batch_end
                      ELSE last_processed_block
      ]_vars

\* The values of pc.
Locations == {"idle", "loop", "fetch", "store", "advance", "raised", "poll"}

\* Control leaves the statement it is at.  Once run_indexer is called the
\* interpreter keeps executing it: every remote call, store call and sleep
\* returns or raises, so the statement at pc is eventually left, for the next
\* statement or by an interrupt.  The polling loop has nothing to do while
\* the chain has not grown.  Calls of run_indexer and the growth of the
\* chain are the environment's and carry no fairness.
Proceeds ==
    /\ pc # "idle"
    /\ pc = "poll" => HasNewBlocks(height, last_processed_block)
    /\ pc' \in Locations \ {pc}

FairSpec == Spec /\ WF_pc(Proceeds)

\* run_indexer is inside its CATCHUP loop.
InCatchup == pc # "idle" /\ mode = "catchup"

\* The CATCHUP loop is left by its own exit test (not by an interrupt or an
\* error return): status becomes 'completed'.
CatchupEnds == InCatchup /\ pc = "loop" /\ status' = "completed"

\* C32 (as claimed): CATCHUP always terminates; each iteration that returns
\* to the loop test, after a success or after a failure, has strictly
\* increased the batch lower bound; a pass in which nothing failed ends with
\* status 'completed' and the persisted last_block equal to to_block; and LIVE
\* is entered only from the end of the pass, with status 'completed'.
C32_CatchupCompletesAtTarget ==
    /\ InCatchup ~> ~InCatchup
    /\ [][/\ (InCatchup /\ pc # "loop" /\ pc' = "loop")
                => batch_start' > batch_start
          /\ (CatchupEnds /\ faults' = 0)
                => sync_state'.last_block = to_block
          /\ (mode = "catchup" /\ mode' = "live")
                => /\ batch_start > to_block
                   /\ status' = "completed"
         ]_vars

\* C32 (amended): the same, the persisted last_block being the target when
\* the range is not empty (from_block <= to_block); a pass over an empty range
\* runs no batch and leaves the cursor where it was.
C32_NonEmptyCatchupCompletesAtTarget ==
    /\ InCatchup ~> ~InCatchup
    /\ [][/\ (InCatchup /\ pc # "loop" /\ pc' = "loop")
                => batch_start' > batch_start
          /\ (CatchupEnds /\ faults' = 0)
                => sync_state'.last_block =
                      IF start_block <= to_block THEN to_block
                      ELSE sync_state.last_block
          /\ (mode = "catchup" /\ mode' = "live")
                => /\ batch_start > to_block
                   /\ status' = "completed"
         ]_vars

\* A continuous pass of several batches, one of them failed and skipped, has
\* ended and the scanner is in LIVE.
C32_Witness ==
    /\ mode = "live"
    /\ status = "completed"
    /\ faults > 0
    /\ start_block + BATCH_SIZE <= to_block
    /\ batch_start = to_block + 1
    /\ sync_state.last_block # to_block

\* A step of a LIVE scanner that stays in the run.
LiveStep == mode = "live" /\ pc' # "idle"

\* C33: in LIVE, while the height is not above the last processed block the
\* scanner stays at the poll and no log query, trade write or cursor write
\* happens; a poll that finds it above requests the range up to the height
\* it read and writes nothing itself; the cycle it starts makes one log query
\* over that range, at most one store call of the trades decoded from it, and
\* ends by setting the persisted cursor and the last processed block to that
\* height.  Stated for cycles in which no call fails.
C33_LivePollCycle ==
    [][(LiveStep /\ faults' = 0)
        => /\ (pc = "poll" /\ height <= last_processed_block)
                => UNCHANGED <<pc, fetched, trades, sync_state,
                               last_processed_block>>
           /\ (pc = "poll" /\ pc' # "poll")
                => /\ pc' = "fetch"
                   /\ batch_start' = last_processed_block + 1
                   /\ batch_end' = height
                   /\ UNCHANGED <<fetched, trades, sync_state,
                                  last_processed_block>>
           /\ (pc = "fetch" /\ pc' # "fetch")
                => /\ pc' \in {"store", "advance"}
                   /\ fetched' = fetched \cup {<<batch_start, batch_end>>}
                   /\ UNCHANGED <<trades, sync_state, last_processed_block,
                                  batch_start, batch_end>>
           /\ (pc = "store" /\ pc' # "store")
                => /\ pc' = "advance"
                   /\ StoredKeys(trades') =
                         StoredKeys(trades) \cup TupleKeys(trade_tuples)
                   /\ UNCHANGED <<fetched, sync_state, last_processed_block,
                                  batch_start, batch_end>>
           /\ (pc = "advance" /\ pc' # "advance")
                => /\ pc' = "poll"
                   /\ sync_state'.last_block = batch_end
                   /\ last_processed_block' = batch_end
                   /\ UNCHANGED <<fetched, trades>>
      ]_vars

\* A LIVE cycle that stored a trade has ended: cursor and last processed
\* block are at the height its poll read, beyond the CATCHUP target.
C33_Witness ==
    /\ mode = "live"
    /\ pc = "poll"
    /\ faults = 0
    /\ <<to_block + 1, height>> \in fetched
    /\ last_processed_block = height
    /\ sync_state.last_block = height
    /\ \E i \in 1..Len(trades) : trades[i].block_number > to_block

\* The logs of ChainLogs that decode: those with exactly one zero asset id.
Decodable(log) == (log.maker_asset_id = 0) # (log.taker_asset_id = 0)

\* The logs get_logs returns for the batch being fetched.
BatchLogs == FetchOrderFilledLogs(batch_start, batch_end, height, TRUE)

\* C34: when the logs of a batch are fetched, the trades handed on are those
\* of its decodable logs, one each and in log order, whatever undecodable
\* logs lie between them; no exception leaves the decoding; the store call
\* stores exactly the trades handed on; and the cursor write that follows
\* sets last_block to the batch's upper bound.  Stated for batches in which
\* no fetch, store or cursor call fails.
C34_UndecodableLogsSkipped ==
    [][(pc' # "idle" /\ faults' = 0)
        => /\ (pc = "fetch" /\ pc' # "fetch")
                => LET good == SelectSeq(BatchLogs, Decodable)
                   IN /\ Len(trade_tuples') = Len(good)
                      /\ \A i \in 1..Len(good) :
                            /\ trade_tuples'[i].tx_hash = good[i].transactionHash
                            /\ trade_tuples'[i].log_index = good[i].logIndex
                            /\ trade_tuples'[i].block_number = good[i].blockNumber
                      /\ pc' = IF Len(good) = 0 THEN "advance" ELSE "store"
           /\ (pc = "store" /\ pc' # "store")
                => /\ pc' = "advance"
                   /\ TupleKeys(trade_tuples) \subseteq StoredKeys(trades')
                   /\ StoredKeys(trades') \subseteq
                         StoredKeys(trades) \cup TupleKeys(trade_tuples)
           /\ (pc = "advance" /\ pc' # "advance")
                => sync_state'.last_block = batch_end
      ]_vars

\* A batch holding a decodable log, then an undecodable one, then a decodable
\* one has been stored and the cursor is at its upper bound.
C34_Witness ==
    /\ faults = 0
    /\ \E r \in done_ranges :
          /\ sync_state.last_block = r[2]
          /\ \E a, b, c \in ChainLogs :
                /\ r[1] <= a.blockNumber
                /\ a.blockNumber < b.blockNumber
                /\ b.blockNumber < c.blockNumber
                /\ c.blockNumber <= r[2]
                /\ Decodable(a) /\ ~Decodable(b) /\ Decodable(c)
                /\ <<a.transactionHash, a.logIndex>> \in StoredKeys(trades)
                /\ <<c.transactionHash, c.logIndex>> \in StoredKeys(trades)
                /\ <<b.transactionHash, b.logIndex>> \notin StoredKeys(trades)

\* DataStore.fetch_trades_for_market(market_id, market_slug): the rows the
\* SELECT ... WHERE market_id = ? returns, as a set (fewer than the limit of
\* 100, block filters unset).  A slug given without an id is looked up in the
\* markets table first, and an unknown slug returns at once; a NULL
\* market_id, in the row or as the parameter, matches nothing.
FetchTradesForMarket(tbl, mkts, market_id, market_slug) ==
    LET lookup == market_slug # "NULL" /\ market_id = NoMarketId
        found == {i \in 1..Len(mkts) : mkts[i].slug = market_slug}
        id == IF lookup /\ found # {}
              THEN mkts[CHOOSE i \in found : TRUE].id
              ELSE market_id
    IN IF lookup /\ found = {} THEN {}
       ELSE {tbl[i] : i \in {k \in 1..Len(tbl) :
                                /\ tbl[k].market_id # NoMarketId
                                /\ id # NoMarketId
                                /\ tbl[k].market_id = id}}

\* C35 (as claimed): after a batch was enriched and stored, a trade whose
\* token is the YES or NO token of a market in the store is among the rows
\* fetch_trades_for_market returns for that market, by its id and, when the
\* market has a slug, by its slug.
C35_LinkedTradesQueryable ==
    market_op.op = "enrich"
        => \A i \in 1..Len(market_op.tuples) : \A m \in 1..Len(markets) :
              market_op.tuples[i].token_id
                    \in {markets[m].yes_token_id, markets[m].no_token_id}
                 => /\ \E row \in FetchTradesForMarket(trades, markets,
                                                       markets[m].id, "NULL") :
                          Key(row) = Key(market_op.tuples[i])
                    /\ markets[m].slug # "NULL"
                          => \E row \in FetchTradesForMarket(trades, markets,
                                            NoMarketId, markets[m].slug) :
                                Key(row) = Key(market_op.tuples[i])

\* C36: no call of insert_trade or insert_trades changes or removes a row
\* already in the table, whatever the submitted records carry for its key:
\* the row of a key stored before the call is the same in every column
\* after it, market_id and outcome included.
C36_StoredRowsNeverChange ==
    [][/\ Len(trades') >= Len(trades)
       /\ \A i \in 1..Len(trades) : trades'[i] = trades[i]
      ]_vars

\* Trades stored without linkage were submitted again, at least one of
\* them with market 1 and outcome YES, without fault: nothing was added and
\* their rows are still the unlinked ones.
C36_Witness ==
    /\ last_op.op = "insert_trades"
    /\ last_op.fault = "none"
    /\ last_op.differs
    /\ last_op.applied = {}
    /\ last_op.keys # {}
    /\ \A k \in 1..Len(trades) :
          Key(trades[k]) \in last_op.keys
             => trades[k].market_id = NoMarketId /\ trades[k].outcome = "NULL"

\* -------------------------------- ConcSpec: two scanners on one store

\* Each scanner runs CATCHUP over a range of its own up to the chain height;
\* the ranges overlap and their batch boundaries differ.
ScanFroms == {0, LogStride}

\* SQLite admits one write transaction at a time: the first INSERT of a
\* connection takes the write lock, kept until its commit or rollback; an
\* INSERT or commit of another connection meanwhile fails with "database is
\* locked" once the busy timeout has passed.
CanWrite_NoLock(holder, p) == TRUE

CanWrite(holder, p) == holder \in {NoScanner, p}

\* run_indexer(from_block) is called in process p.
ScanStart(p) ==
    /\ scanners[p].pc = "idle"
    /\ \E from_block \in ScanFroms :
          scanners' = [scanners EXCEPT ![p] =
                          [@ EXCEPT !.pc = "loop", !.batch_start = from_block,
                                    !.to_block = MaxHeight]]
    /\ UNCHANGED <<storeVars, height, indexerVars, historyVars, last_op,
                   decoderVars, priceVars, marketVars, db_lock, returned, mcpVars>>

\* The loop test, and run_batch up to the call of insert_trades: the logs of
\* the batch are fetched, decoded and enriched; with no trade run_batch
\* returns before the store; insert_trades opens its connection.
ScanFetch(p) ==
    LET s == scanners[p]
        hi == BatchEnd(s.batch_start, s.to_block)
        dicts == EnrichTradesWithMarket(markets,
                    ProcessLogsBatch(
                       FetchOrderFilledLogs(s.batch_start, hi, MaxHeight, TRUE)))
    IN /\ s.pc = "loop"
       /\ scanners' = [scanners EXCEPT ![p] =
             IF s.batch_start > s.to_block THEN [s EXCEPT !.pc = "done"]
             ELSE [s EXCEPT !.pc = IF dicts = <<>> THEN "cursor" ELSE "row",
                            !.batch_end = hi, !.batch = dicts, !.i = 1,
                            !.inserted = 0, !.pending = <<>>]]
       /\ UNCHANGED <<storeVars, height, indexerVars, historyVars, last_op,
                      decoderVars, priceVars, marketVars, db_lock, returned, mcpVars>>

\* One INSERT OR IGNORE of insert_trades with the write lock free or held
\* by this connection: the statement sees the committed rows and those of
\* its own transaction, and the counter follows cursor.rowcount.
ScanExecute(p) ==
    LET s == scanners[p]
        seen == trades \o s.pending
        d == s.batch[s.i]
        n == RowCount(seen, d)
    IN /\ s.pc = "row"
       /\ s.i <= Len(s.batch)
       /\ CanWrite(db_lock, p)
       /\ db_lock' = p
       /\ scanners' = [scanners EXCEPT ![p] =
             [s EXCEPT !.i = s.i + 1,
                       !.inserted = IF n > 0 THEN s.inserted + 1 ELSE s.inserted,
                       !.pending = IF n > 0 THEN Append(s.pending, TradeRow(d))
                                   ELSE s.pending]]
       /\ UNCHANGED <<storeVars, height, indexerVars, historyVars, last_op,
                      decoderVars, priceVars, marketVars, returned, mcpVars>>

\* One INSERT OR IGNORE while the other connection holds the write lock:
\* the statement raises, the inner except branch logs it and the loop goes
\* on with the next trade.
ScanBusy(p) ==
    LET s == scanners[p]
    IN /\ s.pc = "row"
       /\ s.i <= Len(s.batch)
       /\ ~CanWrite(db_lock, p)
       /\ scanners' = [scanners EXCEPT ![p] = [s EXCEPT !.i = s.i + 1]]
       /\ UNCHANGED <<storeVars, height, indexerVars, historyVars, last_op,
                      decoderVars, priceVars, marketVars, db_lock, returned, mcpVars>>

\* conn.commit() and the return of insert_trades: the rows of the
\* transaction become visible and `inserted` is returned; when the commit
\* raises, the transaction is rolled back and 0 is returned.  run_batch adds
\* the returned count to the total of the run.
ScanCommit(p) ==
    LET s == scanners[p]
    IN /\ s.pc = "row"
       /\ s.i > Len(s.batch)
       /\ \E ok \in BOOLEAN :
             LET ret == IF ok THEN s.inserted ELSE 0
             IN /\ ok \/ (faults < MaxFaults /\ db_lock = p)
                /\ faults' = IF ok THEN faults ELSE faults + 1
                /\ trades' = IF ok THEN trades \o s.pending ELSE trades
                /\ returned' = returned + ret
                /\ scanners' = [scanners EXCEPT ![p] =
                      [s EXCEPT !.pc = "cursor", !.pending = <<>>,
                                !.total = s.total + ret]]
       /\ db_lock' = IF db_lock = p THEN NoScanner ELSE db_lock
       /\ UNCHANGED <<sync_state, height, indexerVars, run_no, fetch_error,
                      store_error, fetched, done_ranges, ok_ranges, prev_done,
                      prev_end, prev_run, acked, cursor_writer, last_op,
                      decoderVars, priceVars, marketVars, mcpVars>>

\* update_sync_state(batch_end, total) and the move to the next batch; with
\* the write lock held by the other connection the write fails and the
\* failure is swallowed.
ScanCursor(p) ==
    LET s == scanners[p]
    IN /\ s.pc = "cursor"
       /\ sync_state' = UpdateSyncState(sync_state, s.batch_end, s.total,
                                        CanWrite(db_lock, p))
       /\ scanners' = [scanners EXCEPT ![p] =
             [s EXCEPT !.pc = "loop",
                       !.batch_start = NextBatchStart(s.batch_start, s.batch_end),
                       !.batch = <<>>, !.i = 0, !.inserted = 0]]
       /\ UNCHANGED <<trades, height, indexerVars, historyVars, last_op,
                      decoderVars, priceVars, marketVars, db_lock, returned, mcpVars>>

ConcNext ==
    \E p \in Scanners :
        \/ ScanStart(p)
        \/ ScanFetch(p)
        \/ ScanExecute(p)
        \/ ScanBusy(p)
        \/ ScanCommit(p)
        \/ ScanCursor(p)

ConcSpec == Init /\ [][ConcNext]_vars

\* C37: with two scanners on one store, whatever the interleaving of their
\* INSERT statements, commits and cursor writes, no (tx_hash, log_index) is
\* in the trades table twice, and the counts returned by all insert_trades
\* calls so far add up to the number of distinct trades in the table.
C37_ConcurrentInsertsCountOnce ==
    /\ NoDuplicateKeys(trades)
    /\ returned = Cardinality(StoredKeys(trades))

\* Both scanners have finished their ranges, which share the blocks from
\* LogStride on, without fault; each of them stored some of the trades, so
\* each also submitted trades the other had stored.
C37_Witness ==
    /\ \A p \in Scanners : scanners[p].pc = "done" /\ scanners[p].total > 0
    /\ scanners[1].total + scanners[2].total = Len(trades)
    /\ Len(trades) >= 2
    /\ faults = 0

\* ---------------------------------------- McpSpec: the MCP stdio server

\* None of Python: the id of a request without "id", the return value of
\* handle_request for the initialized notification.
NoId == [form |-> "None"]

\* The forms of a request id: absent, a number (the client numbers its
\* requests by position, as test_mcp_stdio.py does), or a string holding a
\* lone surrogate ("\ud800"), which json.loads accepts and sys.stdout cannot
\* encode.
IdForms == {"absent", "number", "surrogate"}

\* request.get("id") of a JSON object read as line number n.
RequestId(form, n) ==
    IF form = "absent" THEN NoId ELSE [form |-> form, n |-> n]

\* The methods of handle_request's dispatch, and one it does not know.
Methods ==
    {"initialize", "initialized", "notifications/initialized", "tools/list",
     "tools/call", "resources/list", "prompts/list", "ping", "unknown"}

\* The JSON objects a client may send: params is a dict or not; for
\* tools/call with a dict, the tool name is registered or not, and the
\* handler of a registered tool returns or raises.
Requests ==
    {r \in [form : {"object"}, method : Methods, id : IdForms,
            params_ok : BOOLEAN, tool_known : BOOLEAN, raises : BOOLEAN] :
        /\ (r.method \notin {"initialize", "tools/call"} => r.params_ok)
        /\ (~(r.method = "tools/call" /\ r.params_ok) => r.tool_known)
        /\ (~(r.method = "tools/call" /\ r.params_ok /\ r.tool_known)
               => ~r.raises)}

\* The lines stdin may deliver: whitespace only, text json.loads rejects,
\* JSON that is not an object (an array, a number), or a JSON object.
Lines ==
    {[form |-> f] : f \in {"blank", "garbage", "scalar"}} \cup Requests

\* _create_response(id, result) and _create_error(id, code, message): code 0
\* stands for a result.
CreateResponse(id, isError) == [id |-> id, code |-> 0, isError |-> isError]

CreateError(id, code) == [id |-> id, code |-> code, isError |-> FALSE]

\* The JSON-RPC error codes of the server.
PARSE_ERROR == 0 - 32700
METHOD_NOT_FOUND == 0 - 32601
INVALID_PARAMS == 0 - 32602
INTERNAL_ERROR == 0 - 32603

\* _handle_tools_call(req_id, params): params.get raises when params is not
\* a dict; an unregistered name gives error -32602; a handler that raises
\* gives a result marked isError.
HandleToolsCall(req_id, r) ==
    IF ~r.params_ok THEN Raised
    ELSE IF ~r.tool_known THEN CreateError(req_id, INVALID_PARAMS)
    ELSE CreateResponse(req_id, r.raises)

\* The body of the try block of handle_request.
Dispatch(req_id, r) ==
    IF r.method = "initialize"
    THEN IF r.params_ok THEN CreateResponse(req_id, FALSE)
         ELSE Raised
    ELSE IF r.method \in {"initialized", "notifications/initialized"}
    THEN None
    ELSE IF r.method = "tools/call" THEN HandleToolsCall(req_id, r)
    ELSE IF r.method \in {"tools/list", "resources/list", "prompts/list", "ping"}
    THEN CreateResponse(req_id, FALSE)
    ELSE CreateError(req_id, METHOD_NOT_FOUND)

\* handle_request(request) for line number n: request.get raises, before
\* the try, when the JSON is not an object; an exception inside the try
\* becomes error -32603.
HandleRequest(line, n) ==
    IF line.form # "object" THEN Raised
    ELSE LET req_id == RequestId(line.id, n)
             r == Dispatch(req_id, line)
         IN IF r = Raised THEN CreateError(req_id, INTERNAL_ERROR)
            ELSE r

\* _write_response(response): json.dumps(response, ensure_ascii=False) and
\* sys.stdout.write, which raises UnicodeEncodeError, writing nothing, when
\* the response holds a lone surrogate.
WriteResponse(out, response) ==
    IF response.id.form = "surrogate" THEN out
    ELSE Append(out, response)

\* One iteration of the loop of run() on line number n: a blank line is
\* passed over, a JSON error is answered with -32700 and id null, a None
\* from handle_request writes nothing, and any exception of the iteration
\* is logged by the except branch.
RunIteration(out, line, n) ==
    IF line.form = "blank" THEN out
    ELSE IF line.form = "garbage"
    THEN WriteResponse(out, CreateError(NoId, PARSE_ERROR))
    ELSE LET response == HandleRequest(line, n)
         IN IF response = Raised THEN out
            ELSE IF response = None THEN out
            ELSE WriteResponse(out, response)

\* stdin delivers a line and the loop of run() processes it.
ReadLine ==
    /\ mcp_state = "running"
    /\ mcp_read < MaxLines
    /\ \E line \in Lines :
          /\ mcp_line' = line
          /\ mcp_out' = RunIteration(mcp_out, line, mcp_read + 1)
    /\ mcp_read' = mcp_read + 1
    /\ UNCHANGED <<storeVars, height, indexerVars, historyVars, last_op,
                   decoderVars, priceVars, marketVars, scanVars, mcp_state>>

\* readline() returns '' at end of input: break.
EndOfInput ==
    /\ mcp_state = "running"
    /\ mcp_state' = "eof"
    /\ UNCHANGED <<storeVars, height, indexerVars, historyVars, last_op,
                   decoderVars, priceVars, marketVars, scanVars, mcp_read,
                   mcp_line, mcp_out>>

\* KeyboardInterrupt while waiting for a line: break.
McpInterrupt ==
    /\ mcp_state = "running"
    /\ mcp_state' = "interrupted"
    /\ UNCHANGED <<storeVars, height, indexerVars, historyVars, last_op,
                   decoderVars, priceVars, marketVars, scanVars, mcp_read,
                   mcp_line, mcp_out>>

McpNext == ReadLine \/ EndOfInput \/ McpInterrupt

McpSpec == Init /\ [][McpNext]_vars

\* The line read by this step is a request: a JSON object whose method is
\* not the initialized notification.
IsRequest(line) ==
    /\ line.form = "object"
    /\ line.method \notin {"initialized", "notifications/initialized"}

\* C38 (as claimed): each request read adds exactly one line to stdout, after
\* the responses to the requests before it, carrying the request's id; the
\* initialized notification adds none, so the line after the response to the
\* request before it is the response to the request after it.
C38_OneResponsePerRequest ==
    [][mcp_read' = mcp_read + 1
        => /\ IsRequest(mcp_line')
                => /\ Len(mcp_out') = Len(mcp_out) + 1
                   /\ SubSeq(mcp_out', 1, Len(mcp_out)) = mcp_out
                   /\ mcp_out'[Len(mcp_out')].id =
                         RequestId(mcp_line'.id, mcp_read')
           /\ (mcp_line'.form = "object" /\ ~IsRequest(mcp_line'))
                => mcp_out' = mcp_out
      ]_vars

\* C39 (as claimed): a line that is not valid JSON adds one response with
\* code -32700 and id null; an unknown method adds one with code -32601; an
\* unknown tool name one with code -32602; a tool handler that raises one
\* result marked isError; the server is still running after every line, and
\* it leaves the running state only at end of input or on an interrupt.
C39_BadInputNeverStopsServer ==
    [][/\ mcp_read' = mcp_read + 1
          => LET line == mcp_line'
                 added == Len(mcp_out') = Len(mcp_out) + 1
                 last == mcp_out'[Len(mcp_out')]
             IN /\ mcp_state' = "running"
                /\ line.form = "garbage"
                      => added /\ last.code = PARSE_ERROR /\ last.id = NoId
                /\ (line.form = "object" /\ line.method = "unknown")
                      => added /\ last.code = METHOD_NOT_FOUND
                /\ (line.form = "object" /\ line.method = "tools/call"
                        /\ line.params_ok /\ ~line.tool_known)
                      => added /\ last.code = INVALID_PARAMS
                /\ (line.form = "object" /\ line.raises)
                      => added /\ last.code = 0 /\ last.isError
       /\ mcp_state' # mcp_state
             => mcp_state = "running" /\ mcp_state' \in {"eof", "interrupted"}
      ]_vars

====
